---- MODULE Spec2Model ----
(***************************************************************************)
(* Model of server.js: the PokeAPI fetch pipeline (value caches plus the   *)
(* promise maps that coalesce concurrent requests) and the socket.io match *)
(* handlers (findMatch, selectTeam, performAction, disconnect).            *)
(*                                                                         *)
(* One action is one macrotask of the Node.js event loop: a socket event   *)
(* or a network response, together with every continuation that the       *)
(* settled promises make runnable.  The only continuation kept as a step   *)
(* of its own is the part of an async caller after `await Promise.all`;    *)
(* it has priority over every macrotask (the microtask queue drains first).*)
(***************************************************************************)
EXTENDS Integers, Sequences, FiniteSets, TLC

\* ------------------------------------------------------------------ bounds
MaxGames == 2          \* matches ever created
MaxProducers == 2      \* species requests ever issued, per identifier
MaxMoveFetches == 2    \* move requests ever issued, per move name
MaxSubmissions == 2    \* selectTeam events ever accepted for fetching
MaxFailures == 1       \* requests to the remote source that ever fail

\* ----------------------------------------------------------- configuration
MAX_MOVES_PER_POKEMON == 4
TARGET_GAME_VERSION_GROUP == "scarlet-violet"
\* the first two of the six ids the server offers
AVAILABLE_POKEMON_IDS == <<1, 4>>

Sockets == {"a", "b"}

\* JS null / a present value
None == <<>>
Some(v) == <<v>>

Max(a, b) == IF a >= b THEN a ELSE b
RECURSIVE SumOver(_, _)
SumOver(f, S) == IF S = {} THEN 0
                 ELSE LET x == CHOOSE y \in S : TRUE IN f[x] + SumOver(f, S \ {x})
Sum(f) == SumOver(f, DOMAIN f)
SeqToSet(s) == {s[i] : i \in DOMAIN s}
\* a map with one key removed (JS delete) / set (JS obj[k] = v)
Without(f, k) == [x \in (DOMAIN f) \ {k} |-> f[x]]
With(f, k, v) == [x \in (DOMAIN f) \cup {k} |-> IF x = k THEN v ELSE f[x]]

\* ------------------------------------------------ the remote data source
\* A name is kept as its hyphen-separated words; the string the API sends
\* is the words joined by "-".
RECURSIVE Join(_, _)
Join(words, sep) ==
    IF words = <<>> THEN ""
    ELSE IF Len(words) = 1 THEN words[1]
    ELSE words[1] \o sep \o Join(Tail(words), sep)

LevelUp == <<[version_group |-> "red-blue", move_learn_method |-> "level-up"],
             [version_group |-> "scarlet-violet", move_learn_method |-> "level-up"]>>
Machine == <<[version_group |-> "scarlet-violet", move_learn_method |-> "machine"]>>

RemotePokemon(identifier) ==
    IF identifier = "1"
    THEN [id |-> 1, name |-> "bulbasaur",
          stats |-> <<[name |-> "hp", base_stat |-> 3],
                      [name |-> "attack", base_stat |-> 8],
                      [name |-> "defense", base_stat |-> 8],
                      [name |-> "speed", base_stat |-> 5]>>,
          moves |-> <<[words |-> <<"growl">>, version_group_details |-> Machine],
                      [words |-> <<"tackle">>, version_group_details |-> LevelUp]>>,
          abilities |-> <<[words |-> <<"chlorophyll">>, is_hidden |-> TRUE],
                          [words |-> <<"over", "grow">>, is_hidden |-> FALSE]>>,
          front_default |-> "sprite1"]
    ELSE [id |-> 4, name |-> "charmander",
          stats |-> <<[name |-> "hp", base_stat |-> 3],
                      [name |-> "attack", base_stat |-> 8],
                      [name |-> "defense", base_stat |-> 8],
                      [name |-> "speed", base_stat |-> 6]>>,
          moves |-> <<[words |-> <<"tackle">>, version_group_details |-> LevelUp]>>,
          abilities |-> <<[words |-> <<"solar", "power">>, is_hidden |-> TRUE]>>,
          front_default |-> "sprite4"]

\* response.data.power of the move endpoint: None is JSON null (a status move)
RemoteMovePower(moveName) == IF moveName = "tackle" THEN Some(8) ELSE None

Identifiers == {ToString(AVAILABLE_POKEMON_IDS[i]) : i \in DOMAIN AVAILABLE_POKEMON_IDS}
MoveNames == {"tackle", "growl"}

\* -------------------------------------------------------- pure functions
\* word.charAt(0).toUpperCase() + word.slice(1)
Capitalize(word) ==
    CASE word = "tackle" -> "Tackle"
      [] word = "growl" -> "Growl"
      [] word = "over" -> "Over"
      [] word = "grow" -> "Grow"
      [] word = "chlorophyll" -> "Chlorophyll"
      [] word = "solar" -> "Solar"
      [] word = "power" -> "Power"
      [] word = "bulbasaur" -> "Bulbasaur"
      [] word = "charmander" -> "Charmander"
      [] OTHER -> word

\* name.split('-').map(capitalize).join(' ')
FormatName(words) == Join([i \in DOMAIN words |-> Capitalize(words[i])], " ")

\* String(idOrName).toLowerCase()
Identifier(idOrName) == ToString(idOrName)

\* data.stats.find(s => s.stat.name === statName)?.base_stat || 0
getStat(data, statName) ==
    LET hits == {i \in DOMAIN data.stats : data.stats[i].name = statName}
    IN IF hits = {} THEN 0
       ELSE data.stats[CHOOSE i \in hits : \A j \in hits : i <= j].base_stat

LearnsByLevelUp(moveInfo) ==
    \E i \in DOMAIN moveInfo.version_group_details :
        /\ moveInfo.version_group_details[i].version_group = TARGET_GAME_VERSION_GROUP
        /\ moveInfo.version_group_details[i].move_learn_method = "level-up"

\* first loop: level-up moves of the target version group, in order, at most 4
RECURSIVE LevelUpMoves(_, _)
LevelUpMoves(moves, selected) ==
    IF moves = <<>> THEN selected
    ELSE LET next == IF LearnsByLevelUp(Head(moves))
                     THEN Append(selected, Head(moves)) ELSE selected
         IN IF Len(next) >= MAX_MOVES_PER_POKEMON THEN next
            ELSE LevelUpMoves(Tail(moves), next)

\* second loop: fill with the remaining moves, skipping the names found first
RECURSIVE FillMoves(_, _, _)
FillMoves(moves, selected, existingNames) ==
    IF moves = <<>> \/ Len(selected) >= MAX_MOVES_PER_POKEMON THEN selected
    ELSE FillMoves(Tail(moves),
                   IF Head(moves).words \notin existingNames
                   THEN Append(selected, Head(moves)) ELSE selected,
                   existingNames)

SelectMoves(data) ==
    LET first == LevelUpMoves(data.moves, <<>>)
    IN IF Len(first) < MAX_MOVES_PER_POKEMON
       THEN FillMoves(data.moves, first, {first[i].words : i \in DOMAIN first})
       ELSE first

\* data.abilities?.find(a => !a.is_hidden), formatted, or 'Unknown'
AbilityName(data) ==
    LET hits == {i \in DOMAIN data.abilities : ~data.abilities[i].is_hidden}
    IN IF hits = {} THEN "Unknown"
       ELSE FormatName(data.abilities[CHOOSE i \in hits : \A j \in hits : i <= j].words)

\* An object's identity: ref names the allocation that made the object (and
\* the moves array it holds).  structuredClone allocates the whole graph
\* anew; an object spread shares the moves array of its source.
\* Producers, move fetches and callers are named <<key, n>>: the n-th request
\* for an identifier / a move name, the n-th submission of a socket.
NoId == <<"", 0>>
Ref(kind, a, b) == <<kind, a, b>>

\* a copy that is the object itself: what `return value` in place of
\* `return structuredClone(value)` hands out
sameObject(data, ref) == data

structuredCloneMove(move, ref) == [move EXCEPT !.ref = ref]

structuredClone(data, ref) ==
    [data EXCEPT !.ref = ref,
                 !.moves = [i \in DOMAIN data.moves |-> [data.moves[i] EXCEPT !.ref = ref]]]

\* the object a successful move request builds
MoveData(words, power, ref) ==
    [name |-> FormatName(words), power |-> IF power = None THEN 0 ELSE power[1], ref |-> ref]

\* a fallback that formats the name the way a successful request does
MoveFallbackFormatted(words, ref) == [name |-> FormatName(words), power |-> 0, ref |-> ref]

\* the object getMoveDetails falls back to when the request fails
MoveFallback(words, ref) == [name |-> Join(words, "-"), power |-> 0, ref |-> ref]

FormattedData(identifier, data, formattedMoves, ref) ==
    [id |-> data.id, apiId |-> identifier, name |-> Capitalize(data.name),
     hp |-> getStat(data, "hp"), attack |-> getStat(data, "attack"),
     defense |-> getStat(data, "defense"), speed |-> getStat(data, "speed"),
     spriteUrl |-> data.front_default,
     moves |-> formattedMoves, abilityName |-> AbilityName(data), ref |-> ref]

\* baseData is None (JS null) or Some(template); the spread keeps every field
\* of baseData, the moves array (ref) included
createPokemonInstance(baseData) ==
    IF baseData = None THEN None
    ELSE LET b == baseData[1]
         IN Some([id |-> b.id, apiId |-> b.apiId, name |-> b.name,
                  hp |-> b.hp, attack |-> b.attack, defense |-> b.defense,
                  speed |-> b.speed, spriteUrl |-> b.spriteUrl,
                  moves |-> b.moves, abilityName |-> b.abilityName, ref |-> b.ref,
                  maxHp |-> b.hp, currentHp |-> b.hp, fainted |-> FALSE])

\* --------------------------------------------------------------- state
VARIABLES
    sockets,                \* socket id -> "connected" | "gone"
    waitingPlayer,          \* None or Some(socket id)
    activeGames,            \* game id -> game object
    detachedGames,          \* game objects deleted from activeGames that a
                            \* suspended selectTeam still holds in `game`
    leaderboard,            \* username -> wins
    pokemonDataCache,       \* identifier -> formattedData
    pokemonFetchPromises,   \* identifier -> producer id
    moveDataCache,          \* move name -> moveData
    moveFetchPromises,      \* move name -> move fetch id
    availablePokemonDetails,
    producers,              \* producer id -> the async body of getPokemonDetails in flight
    moveFetches,            \* move fetch id -> the async body of getMoveDetails in flight
    awaiting,               \* caller id -> async caller suspended at `await Promise.all`
    rooms,                  \* game id -> sockets in the socket.io room of the match
    emitted,                \* the events the last step emitted, in order
    history                 \* counts of requests issued and settled, per key

vars == <<sockets, waitingPlayer, activeGames, detachedGames, leaderboard,
          pokemonDataCache, pokemonFetchPromises, moveDataCache, moveFetchPromises,
          availablePokemonDetails, producers, moveFetches, awaiting, rooms,
          emitted, history>>

gameVars == <<sockets, waitingPlayer, activeGames, detachedGames, leaderboard, rooms>>

\* ------------------------------------------------- the fetch pipeline
\* The operators below act on a record w of the pipeline's variables, so
\* that one step can chain several of them.
Pipeline ==
    [pokemonDataCache |-> pokemonDataCache, pokemonFetchPromises |-> pokemonFetchPromises,
     moveDataCache |-> moveDataCache, moveFetchPromises |-> moveFetchPromises,
     producers |-> producers, moveFetches |-> moveFetches, awaiting |-> awaiting,
     history |-> history]

SetPipeline(w) ==
    /\ pokemonDataCache' = w.pokemonDataCache
    /\ pokemonFetchPromises' = w.pokemonFetchPromises
    /\ moveDataCache' = w.moveDataCache
    /\ moveFetchPromises' = w.moveFetchPromises
    /\ producers' = w.producers
    /\ moveFetches' = w.moveFetches
    /\ awaiting' = w.awaiting
    /\ history' = w.history

\* a call's place in its caller: settled (done) with a value, or suspended
\* on the promise of producer / move fetch `wait`
Settled(from, value) == [done |-> TRUE, wait |-> from, value |-> value]
Suspended(on) == [done |-> FALSE, wait |-> on, value |-> None]


\* ---- getMoveDetails: the part that runs before the first await.  Returns
\* the pipeline after the call and the place of the call in its caller.
getMoveDetails(w, moveInfo, ref) ==
    LET moveName == Join(moveInfo.words, "-")
    IN IF moveName \in DOMAIN w.moveDataCache
       THEN [w |-> w,
             slot |-> Settled(NoId, Some(structuredCloneMove(w.moveDataCache[moveName], ref)))]
       ELSE IF moveName \notin DOMAIN w.moveFetchPromises
       THEN LET f == <<moveName, w.history.moveRequests[moveName] + 1>>
            IN [w |-> [w EXCEPT !.moveFetchPromises = With(@, moveName, f),
                                !.moveFetches = With(@, f, [words |-> moveInfo.words]),
                                !.history.moveRequests[moveName] = @ + 1],
                slot |-> Suspended(f)]
       ELSE [w |-> w, slot |-> Suspended(w.moveFetchPromises[moveName])]

\* selectedMoveInfos.map(moveInfo => getMoveDetails(moveInfo)) by producer p
RECURSIVE CallMoves(_, _, _, _)
CallMoves(w, moveInfos, p, i) ==
    IF i > Len(moveInfos) THEN [w |-> w, slots |-> <<>>]
    ELSE LET r == getMoveDetails(w, moveInfos[i], Ref("moveClone", p, i))
             rest == CallMoves(r.w, moveInfos, p, i + 1)
         IN [w |-> rest.w, slots |-> <<r.slot>> \o rest.slots]

\* getPokemonDetails with the lookup in pokemonFetchPromises left out: a
\* variant that starts a request of its own whenever the key is not cached
getPokemonDetailsAlone(w, idOrName, ref) ==
    LET identifier == Identifier(idOrName)
        p == <<identifier, w.history.pokemonRequests[identifier] + 1>>
    IN IF identifier \in DOMAIN w.pokemonDataCache
       THEN [w |-> w,
             slot |-> Settled(NoId, Some(structuredClone(w.pokemonDataCache[identifier], ref)))]
       ELSE [w |-> [w EXCEPT !.pokemonFetchPromises = With(@, identifier, p),
                             !.producers = With(@, p, [identifier |-> identifier,
                                                       stage |-> "species",
                                                       slots |-> <<>>]),
                             !.history.pokemonRequests[identifier] = @ + 1],
             slot |-> Suspended(p)]

\* getPokemonDetails with the lookup in pokemonDataCache left out: a variant
\* that asks the remote source again for a key it has already resolved
getPokemonDetailsUncached(w, idOrName, ref) ==
    LET identifier == Identifier(idOrName)
        p == <<identifier, w.history.pokemonRequests[identifier] + 1>>
    IN IF identifier \notin DOMAIN w.pokemonFetchPromises
       THEN [w |-> [w EXCEPT !.pokemonFetchPromises = With(@, identifier, p),
                             !.producers = With(@, p, [identifier |-> identifier,
                                                       stage |-> "species",
                                                       slots |-> <<>>]),
                             !.history.pokemonRequests[identifier] = @ + 1],
             slot |-> Suspended(p)]
       ELSE [w |-> w, slot |-> Suspended(w.pokemonFetchPromises[identifier])]

\* ---- getPokemonDetails: the part that runs before the first await
getPokemonDetails(w, idOrName, ref) ==
    LET identifier == Identifier(idOrName)
    IN IF identifier \in DOMAIN w.pokemonDataCache
       THEN [w |-> w,
             slot |-> Settled(NoId, Some(structuredClone(w.pokemonDataCache[identifier], ref)))]
       ELSE IF identifier \notin DOMAIN w.pokemonFetchPromises
       THEN LET p == <<identifier, w.history.pokemonRequests[identifier] + 1>>
            IN [w |-> [w EXCEPT !.pokemonFetchPromises = With(@, identifier, p),
                                !.producers = With(@, p, [identifier |-> identifier,
                                                          stage |-> "species",
                                                          slots |-> <<>>]),
                                !.history.pokemonRequests[identifier] = @ + 1],
                slot |-> Suspended(p)]
       ELSE [w |-> w, slot |-> Suspended(w.pokemonFetchPromises[identifier])]

\* ids.map(id => getPokemonDetails(id)) by caller c
RECURSIVE CallPokemon(_, _, _, _)
CallPokemon(w, ids, c, i) ==
    IF i > Len(ids) THEN [w |-> w, slots |-> <<>>]
    ELSE LET r == getPokemonDetails(w, ids[i], Ref("clone", c, i))
             rest == CallPokemon(r.w, ids, c, i + 1)
         IN [w |-> rest.w, slots |-> <<r.slot>> \o rest.slots]

\* ---- the promise of producer p settles: every getPokemonDetails call that
\* awaits it resumes; result is None when the promise rejected (the call
\* returns null), else Some(data) (the call returns a structuredClone)
ResolvePokemonAwaiters(w, p, result) ==
    [w EXCEPT !.awaiting =
        [c \in DOMAIN @ |->
            [@[c] EXCEPT !.slots =
                [i \in DOMAIN @ |->
                    IF ~@[i].done /\ @[i].wait = p
                    THEN Settled(p, IF result = None THEN None
                                    ELSE Some(structuredClone(result[1], Ref("clone", c, i))))
                    ELSE @[i]]]]]

\* the async body after Promise.all(moveDetailPromises) without the write
\* to pokemonDataCache
FinishProducerForgets(w, p) ==
    LET identifier == w.producers[p].identifier
        slots == w.producers[p].slots
        formattedData ==
            FormattedData(identifier, RemotePokemon(identifier),
                          [i \in DOMAIN slots |-> slots[i].value[1]],
                          Ref("formatted", p, 0))
        stored == [w EXCEPT !.pokemonFetchPromises = Without(@, identifier),
                            !.producers = Without(@, p),
                            !.history.pokemonOk[identifier] = @ + 1]
    IN ResolvePokemonAwaiters(stored, p, Some(formattedData))

\* the async body of getPokemonDetails after Promise.all(moveDetailPromises)
FinishProducer(w, p) ==
    LET identifier == w.producers[p].identifier
        slots == w.producers[p].slots
        formattedData ==
            FormattedData(identifier, RemotePokemon(identifier),
                          [i \in DOMAIN slots |-> slots[i].value[1]],
                          Ref("formatted", p, 0))
        stored == [w EXCEPT !.pokemonDataCache = With(@, identifier, formattedData),
                            !.pokemonFetchPromises = Without(@, identifier),
                            !.producers = Without(@, p),
                            !.history.pokemonOk[identifier] = @ + 1]
    IN ResolvePokemonAwaiters(stored, p, Some(formattedData))

\* the catch of the async body without its finally: the failed promise stays
\* in pokemonFetchPromises
FailProducerKeepsPending(w, p) ==
    LET identifier == w.producers[p].identifier
        cleared == [w EXCEPT !.producers = Without(@, p),
                             !.history.pokemonFailed[identifier] = @ + 1]
    IN ResolvePokemonAwaiters(cleared, p, None)

\* the catch / finally of the async body when the species request fails
FailProducer(w, p) ==
    LET identifier == w.producers[p].identifier
        cleared == [w EXCEPT !.pokemonFetchPromises = Without(@, identifier),
                             !.producers = Without(@, p),
                             !.history.pokemonFailed[identifier] = @ + 1]
    IN ResolvePokemonAwaiters(cleared, p, None)

ReadyProducers(w) ==
    {p \in DOMAIN w.producers :
        /\ w.producers[p].stage = "moves"
        /\ \A i \in DOMAIN w.producers[p].slots : w.producers[p].slots[i].done}

\* every producer whose moves have all settled runs to its end
RECURSIVE FinishReady(_)
FinishReady(w) ==
    IF ReadyProducers(w) = {} THEN w
    ELSE FinishReady(FinishProducer(w, CHOOSE p \in ReadyProducers(w) : TRUE))

\* the async body of getPokemonDetails after the species response arrived
StartMoves(w, p) ==
    LET data == RemotePokemon(w.producers[p].identifier)
        r == CallMoves(w, SelectMoves(data), p, 1)
    IN FinishReady([r.w EXCEPT !.producers[p].stage = "moves",
                               !.producers[p].slots = r.slots])

\* ---- the promise of move fetch f settles with moveData: every
\* getMoveDetails call that awaits it returns a structuredClone
ResolveMoveAwaiters(w, f, moveData) ==
    [w EXCEPT !.producers =
        [p \in DOMAIN @ |->
            [@[p] EXCEPT !.slots =
                [i \in DOMAIN @ |->
                    IF ~@[i].done /\ @[i].wait = f
                    THEN Settled(f, Some(structuredCloneMove(moveData, Ref("moveClone", p, i))))
                    ELSE @[i]]]]]

\* the async body of getMoveDetails without its finally: the settled promise
\* stays in moveFetchPromises
SettleMoveKeepsPending(w, f, ok) ==
    LET words == w.moveFetches[f].words
        moveName == Join(words, "-")
        moveData == IF ok THEN MoveData(words, RemoteMovePower(moveName), Ref("moveData", f, 0))
                    ELSE MoveFallback(words, Ref("moveData", f, 0))
        stored == [w EXCEPT !.moveDataCache = IF ok THEN With(@, moveName, moveData) ELSE @,
                            !.moveFetches = Without(@, f),
                            !.history.moveOk[moveName] = IF ok THEN @ + 1 ELSE @,
                            !.history.moveFailed[moveName] = IF ok THEN @ ELSE @ + 1]
    IN FinishReady(ResolveMoveAwaiters(stored, f, moveData))

\* the async body of getMoveDetails after the move response arrived
SettleMove(w, f, ok) ==
    LET words == w.moveFetches[f].words
        moveName == Join(words, "-")
        moveData == IF ok THEN MoveData(words, RemoteMovePower(moveName), Ref("moveData", f, 0))
                    ELSE MoveFallback(words, Ref("moveData", f, 0))
        stored == [w EXCEPT !.moveDataCache = IF ok THEN With(@, moveName, moveData) ELSE @,
                            !.moveFetchPromises = Without(@, moveName),
                            !.moveFetches = Without(@, f),
                            !.history.moveOk[moveName] = IF ok THEN @ + 1 ELSE @,
                            !.history.moveFailed[moveName] = IF ok THEN @ ELSE @ + 1]
    IN FinishReady(ResolveMoveAwaiters(stored, f, moveData))

\* ------------------------------------------------------ socket.io helpers
EmptyMap == [x \in {} |-> 0]

\* socket.username as assigned on connection: `Anon_${socket.id.substring(0, 4)}`
\* (setUsername is outside the model: every session keeps this name)
Username(s) == "Anon_" \o s

Connected == {s \in Sockets : sockets[s] = "connected"}

\* socket.emit / io.to(socketId).emit: delivered when the socket is connected
ToSocket(s, event, data) == [to |-> {s} \cap Connected, event |-> event, data |-> data]
\* io.to(gameId).emit: delivered to the sockets in the room of the match
ToRoom(g, event, data) ==
    [to |-> IF g \in DOMAIN rooms THEN rooms[g] \cap Connected ELSE {},
     event |-> event, data |-> data]

AllSettled(caller) == \A i \in DOMAIN caller.slots : caller.slots[i].done
\* the microtask queue is empty: no async caller can resume
NoRunnable == \A c \in DOMAIN awaiting : ~AllSettled(awaiting[c])

\* the game object a handler holds in `game`
GameObject(g) == IF g \in DOMAIN activeGames THEN activeGames[g] ELSE detachedGames[g]
HeldGames(callers) == {callers[c].game : c \in DOMAIN callers}

\* Object.keys(activeGames).find(id => activeGames[id]?.players[socket.id]):
\* keys come in insertion order, which is the order the ids were made
GamesOf(s) == {g \in DOMAIN activeGames : s \in DOMAIN activeGames[g].players}
FirstGameOf(s) == CHOOSE g \in GamesOf(s) : \A h \in GamesOf(s) : g <= h

\* game.playerOrder.find(id => id !== socket.id); None is undefined
OpponentOf(game, s) ==
    IF game.playerOrder[1] # s THEN Some(game.playerOrder[1])
    ELSE IF game.playerOrder[2] # s THEN Some(game.playerOrder[2])
    ELSE None

\* a line of game.log: the template text, the names put into it, and the
\* damage put into it (0 where the line has none)
Line(text, args, n) == [text |-> text, args |-> args, n |-> n]

\* the object playerState.activePokemon refers to: an element of the team
ActivePokemon(game, side) ==
    game.players[game.battleState[1][side].id].team[game.battleState[1][side].activePokemon + 1]

sanitizePokemon(p) ==
    [id |-> p.id, name |-> p.name, currentHp |-> p.currentHp, maxHp |-> p.maxHp,
     fainted |-> p.fainted]

\* battleState.playerN.team is the array game.players[id].team
sanitizePlayer(game, side) ==
    LET playerState == game.battleState[1][side]
        team == game.players[playerState.id].team
    IN [id |-> playerState.id, username |-> playerState.username,
        team |-> [i \in DOMAIN team |-> sanitizePokemon(team[i])],
        activePokemon |-> sanitizePokemon(ActivePokemon(game, side)),
        activePokemonIndex |-> playerState.activePokemonIndex,
        mustSwitch |-> playerState.mustSwitch]

\* games is activeGames at the time of the call
getSanitizedGameState(games, gameId) ==
    IF gameId \notin DOMAIN games THEN None
    ELSE LET game == games[gameId]
         IN Some([gameId |-> game.id,
                  battleState |->
                    [side \in {"player1", "player2"} |->
                        IF game.battleState = None THEN None
                        ELSE Some(sanitizePlayer(game, side))],
                  turn |-> game.turn, log |-> game.log])

\* ------------------------------------------------------------ the start
\* The module body has run: initializeAvailablePokemon() has issued one
\* getPokemonDetails per available id and awaits them all (caller InitCaller).
\* Both sockets have connected.
EmptyPipeline ==
    [pokemonDataCache |-> EmptyMap, pokemonFetchPromises |-> EmptyMap,
     moveDataCache |-> EmptyMap, moveFetchPromises |-> EmptyMap,
     producers |-> EmptyMap, moveFetches |-> EmptyMap, awaiting |-> EmptyMap,
     history |-> [pokemonRequests |-> [k \in Identifiers |-> 0],
                  moveRequests |-> [m \in MoveNames |-> 0],
                  pokemonOk |-> [k \in Identifiers |-> 0],
                  moveOk |-> [m \in MoveNames |-> 0],
                  submissions |-> [s \in Sockets |-> 0],
                  pokemonFailed |-> [k \in Identifiers |-> 0],
                  moveFailed |-> [m \in MoveNames |-> 0],
                  games |-> 0]]

\* requests to the remote source that have failed
Failures(h) == Sum(h.pokemonFailed) + Sum(h.moveFailed)

InitCaller == <<"init", 1>>

initializeAvailablePokemon ==
    LET r == CallPokemon(EmptyPipeline, AVAILABLE_POKEMON_IDS, InitCaller, 1)
    IN [r.w EXCEPT !.awaiting = With(@, InitCaller, [kind |-> "init", socket |-> "", game |-> 0,
                                            ids |-> AVAILABLE_POKEMON_IDS,
                                            slots |-> r.slots])]

Init ==
    /\ sockets = [s \in Sockets |-> "connected"]
    /\ waitingPlayer = None
    /\ activeGames = EmptyMap
    /\ detachedGames = EmptyMap
    /\ leaderboard = EmptyMap
    /\ availablePokemonDetails = <<>>
    /\ rooms = EmptyMap
    /\ emitted = <<>>
    /\ pokemonDataCache = initializeAvailablePokemon.pokemonDataCache
    /\ pokemonFetchPromises = initializeAvailablePokemon.pokemonFetchPromises
    /\ moveDataCache = initializeAvailablePokemon.moveDataCache
    /\ moveFetchPromises = initializeAvailablePokemon.moveFetchPromises
    /\ producers = initializeAvailablePokemon.producers
    /\ moveFetches = initializeAvailablePokemon.moveFetches
    /\ awaiting = initializeAvailablePokemon.awaiting
    /\ history = initializeAvailablePokemon.history

\* results.filter(p => p !== null).map(p => ({ id, name, spriteUrl }))
Available(results) ==
    LET kept == SelectSeq(results, LAMBDA slot : slot.value # None)
    IN [i \in DOMAIN kept |-> [id |-> kept[i].value[1].id, name |-> kept[i].value[1].name,
                               spriteUrl |-> kept[i].value[1].spriteUrl]]

\* ------------------------------------------------------------- actions
\* the continuation of initializeAvailablePokemon after Promise.all
InitializeResume(c) ==
    /\ c \in DOMAIN awaiting
    /\ awaiting[c].kind = "init"
    /\ AllSettled(awaiting[c])
    /\ availablePokemonDetails' = Available(awaiting[c].slots)
    /\ awaiting' = Without(awaiting, c)
    /\ emitted' = <<>>
    /\ UNCHANGED <<sockets, waitingPlayer, activeGames, detachedGames, leaderboard, rooms,
                   pokemonDataCache, pokemonFetchPromises, moveDataCache, moveFetchPromises,
                   producers, moveFetches, history>>

\* the response to the species request of producer p arrives (ok) or the
\* request fails
SpeciesResponse(p, ok) ==
    /\ NoRunnable
    /\ p \in DOMAIN producers
    /\ producers[p].stage = "species"
    /\ LET w == IF ok THEN StartMoves(Pipeline, p) ELSE FailProducer(Pipeline, p)
       IN /\ \A m \in MoveNames : w.history.moveRequests[m] <= MaxMoveFetches
          /\ Failures(w.history) <= MaxFailures
          /\ SetPipeline(w)
    /\ emitted' = <<>>
    /\ UNCHANGED <<gameVars, availablePokemonDetails>>

\* the response to the request of move fetch f arrives (ok) or the request fails
MoveResponse(f, ok) ==
    /\ NoRunnable
    /\ f \in DOMAIN moveFetches
    /\ ok \/ Failures(history) < MaxFailures
    /\ SetPipeline(SettleMove(Pipeline, f, ok))
    /\ emitted' = <<>>
    /\ UNCHANGED <<gameVars, availablePokemonDetails>>

NewPlayer(s, isPlayer1) ==
    [id |-> s, username |-> Username(s), team |-> <<>>, activePokemonIndex |-> 0,
     hasSelected |-> FALSE, isPlayer1 |-> isPlayer1]

\* the game object findMatch stores; team <<>> and battleState None are null
NewGame(gameId, player1, player2) ==
    [id |-> gameId,
     players |-> (player1 :> NewPlayer(player1, TRUE)) @@ (player2 :> NewPlayer(player2, FALSE)),
     playerOrder |-> <<player1, player2>>,
     battleState |-> None, turn |-> "",
     log |-> <<Line("Match found! Select your teams.", <<>>, 0)>>]

\* an id source that hands out the same id again
SameIdAgain(h) == 1

\* uuidv4(): an id never handed out before (matches are numbered as made)
uuidv4(h) == h.games + 1

\* a pairing test that lets a session meet itself
SomebodyWaits(waiting, s) == waiting # None

\* waitingPlayer && waitingPlayer.id !== socket.id
CanPair(waiting, s) == waiting # None /\ waiting[1] # s

\* socket.on('findMatch')
FindMatch(s) ==
    /\ NoRunnable
    /\ sockets[s] = "connected"
    /\ IF CanPair(waitingPlayer, s)
       THEN LET player1 == waitingPlayer[1]
                player2 == s
                gameId == uuidv4(history)
            IN /\ history.games < MaxGames
               /\ waitingPlayer' = None
               /\ rooms' = With(rooms, gameId, {player1, player2})
               /\ activeGames' = With(activeGames, gameId, NewGame(gameId, player1, player2))
               /\ history' = [history EXCEPT !.games = @ + 1]
               /\ emitted' = <<ToSocket(player1, "matchFound", <<gameId, Username(player2)>>),
                               ToSocket(player2, "matchFound", <<gameId, Username(player1)>>)>>
       ELSE /\ waitingPlayer' = Some(s)
            /\ emitted' = <<ToSocket(s, "waitingForOpponent", <<>>)>>
            /\ UNCHANGED <<rooms, activeGames, history>>
    /\ UNCHANGED <<sockets, detachedGames, leaderboard, availablePokemonDetails,
                   pokemonDataCache, pokemonFetchPromises, moveDataCache, moveFetchPromises,
                   producers, moveFetches, awaiting>>

\* ---- client inputs
Num(n) == [type |-> "number", value |-> n]
Str == [type |-> "string", value |-> 0]
Arr(items) == [isArray |-> TRUE, items |-> items]
NotArray == [isArray |-> FALSE, items |-> <<>>]

TeamIdInputs ==
    {Arr(<<Num(1), Num(1), Num(4)>>), Arr(<<Num(4), Num(1), Num(1)>>),
     Arr(<<Num(1), Num(4)>>), Arr(<<Num(1), Str, Num(4)>>), NotArray}
GameIdInputs == 0 .. MaxGames

\* a game object is kept after `delete activeGames[gameId]` only while a
\* suspended selectTeam holds it
Detach(detached, callers) == [g \in (DOMAIN detached) \cap HeldGames(callers) |-> detached[g]]

\* the check of teamIds without its length test
MalformedOfAnyLength(teamIds) ==
    \/ ~teamIds.isArray
    \/ \E i \in DOMAIN teamIds.items : teamIds.items[i].type # "number"

\* !Array.isArray(teamIds) || teamIds.length !== 3 || !teamIds.every(number)
Malformed(teamIds) ==
    \/ ~teamIds.isArray
    \/ Len(teamIds.items) # 3
    \/ \E i \in DOMAIN teamIds.items : teamIds.items[i].type # "number"

\* socket.on('selectTeam'), up to `await Promise.all(fetchPromises)`; limit
\* caps the submissions ever taken up for fetching
SelectTeamWithin(s, gameId, teamIds, limit) ==
    /\ NoRunnable
    /\ sockets[s] = "connected"
    /\ IF \/ gameId \notin DOMAIN activeGames
          \/ s \notin DOMAIN activeGames[gameId].players
          \/ activeGames[gameId].players[s].hasSelected
       THEN UNCHANGED <<pokemonDataCache, pokemonFetchPromises, moveDataCache,
                        moveFetchPromises, producers, moveFetches, awaiting, history>>
       ELSE IF Malformed(teamIds)
       THEN UNCHANGED <<pokemonDataCache, pokemonFetchPromises, moveDataCache,
                        moveFetchPromises, producers, moveFetches, awaiting, history>>
       ELSE LET c == <<s, history.submissions[s] + 1>>
                ids == [i \in DOMAIN teamIds.items |-> teamIds.items[i].value]
                r == CallPokemon(Pipeline, ids, c, 1)
                w == [r.w EXCEPT !.awaiting = With(@, c, [kind |-> "selectTeam", socket |-> s,
                                                          game |-> gameId, ids |-> ids,
                                                          slots |-> r.slots]),
                                 !.history.submissions[s] = @ + 1]
            IN /\ Sum(history.submissions) < limit
               /\ \A k \in Identifiers : w.history.pokemonRequests[k] <= MaxProducers
               /\ SetPipeline(w)
    /\ emitted' = <<>>
    /\ UNCHANGED <<gameVars, availablePokemonDetails>>

SelectTeam(s, gameId, teamIds) == SelectTeamWithin(s, gameId, teamIds, MaxSubmissions)

\* game.battleState = { player1: {...player1Data, activePokemon: team[0]}, ... }:
\* activePokemon is the (0-based) place in the team of the object it refers to
BattlePlayer(playerData) ==
    [id |-> playerData.id, username |-> playerData.username,
     activePokemon |-> 0, activePokemonIndex |-> playerData.activePokemonIndex,
     mustSwitch |-> FALSE]

\* the turn rule with > in place of >=
FirstTurnStrict(player1Data, player2Data) ==
    IF player1Data.team[1].speed > player2Data.team[1].speed
    THEN player1Data.id ELSE player2Data.id

\* game.turn = (p1Speed >= p2Speed) ? player1Data.id : player2Data.id
FirstTurn(player1Data, player2Data) ==
    LET p1Speed == player1Data.team[1].speed
        p2Speed == player2Data.team[1].speed
    IN IF p1Speed >= p2Speed THEN player1Data.id ELSE player2Data.id

\* lines 265-279 applied to the game object `game` held by socket s
StoreTeam(game, s, pokemonBaseDataArray) ==
    LET team == [i \in DOMAIN pokemonBaseDataArray |->
                    createPokemonInstance(pokemonBaseDataArray[i])[1]]
        selected == [game EXCEPT !.players[s].team = team, !.players[s].hasSelected = TRUE]
        player1Data == selected.players[selected.playerOrder[1]]
        player2Data == selected.players[selected.playerOrder[2]]
    IN IF player1Data.hasSelected /\ player2Data.hasSelected
       THEN IF \/ player1Data.team = <<>> \/ player2Data.team = <<>>
               \/ Len(player1Data.team) # 3 \/ Len(player2Data.team) # 3
            THEN [game |-> selected, outcome |-> "invalidTeams"]
            ELSE LET turn == FirstTurn(player1Data, player2Data)
                 IN [game |-> [selected EXCEPT
                        !.battleState = Some([player1 |-> BattlePlayer(player1Data),
                                              player2 |-> BattlePlayer(player2Data)]),
                        !.turn = turn,
                        !.log = <<Line("Battle Start!", <<>>, 0),
                                  Line("vs", <<player1Data.username, player1Data.team[1].name,
                                               player2Data.username, player2Data.team[1].name>>, 0),
                                  Line("turn", <<selected.players[turn].username>>, 0)>>],
                     outcome |-> "battleStart"]
       ELSE [game |-> selected, outcome |-> "waiting"]

\* socket.on('selectTeam'), from `await Promise.all(fetchPromises)` on
SelectTeamResume(c) ==
    /\ c \in DOMAIN awaiting
    /\ awaiting[c].kind = "selectTeam"
    /\ AllSettled(awaiting[c])
    /\ LET s == awaiting[c].socket
           gameId == awaiting[c].game
           pokemonBaseDataArray == [i \in DOMAIN awaiting[c].slots |-> awaiting[c].slots[i].value]
           remaining == Without(awaiting, c)
       IN /\ awaiting' = remaining
          /\ IF \E i \in DOMAIN pokemonBaseDataArray : pokemonBaseDataArray[i] = None
             THEN /\ activeGames' = activeGames
                  /\ detachedGames' = Detach(detachedGames, remaining)
                  /\ emitted' = <<>>
             ELSE LET r == StoreTeam(GameObject(gameId), s, pokemonBaseDataArray)
                      games == IF gameId \in DOMAIN activeGames
                               THEN With(activeGames, gameId, r.game) ELSE activeGames
                      opponentId == OpponentOf(r.game, s)
                  IN /\ activeGames' = games
                     /\ detachedGames' =
                            Detach(IF gameId \in DOMAIN activeGames THEN detachedGames
                                   ELSE With(detachedGames, gameId, r.game), remaining)
                     /\ emitted' =
                            IF r.outcome = "battleStart"
                            THEN <<ToRoom(gameId, "battleStart",
                                          getSanitizedGameState(games, gameId))>>
                            ELSE IF r.outcome = "waiting"
                            THEN <<ToSocket(opponentId[1], "opponentReady", <<>>),
                                   ToSocket(s, "waitingForOpponentSelection", <<>>)>>
                            ELSE <<>>
    /\ UNCHANGED <<sockets, waitingPlayer, leaderboard, rooms, availablePokemonDetails,
                   pokemonDataCache, pokemonFetchPromises, moveDataCache, moveFetchPromises,
                   producers, moveFetches, history>>

\* a test of the battle that takes every match for started
AnyMatchStarted(game) == TRUE

\* if (game.battleState) (lines 371-372)
BattleStarted(game) == game.battleState # None

\* socket.on('disconnect')
Disconnect(s) ==
    /\ NoRunnable
    /\ sockets[s] = "connected"
    /\ sockets' = [sockets EXCEPT ![s] = "gone"]
    /\ waitingPlayer' = IF waitingPlayer = Some(s) THEN None ELSE waitingPlayer
    /\ IF GamesOf(s) = {}
       THEN /\ rooms' = [g \in DOMAIN rooms |-> rooms[g] \ {s}]
            /\ emitted' = <<>>
            /\ UNCHANGED <<activeGames, detachedGames, leaderboard>>
       ELSE LET gameId == FirstGameOf(s)
                game == activeGames[gameId]
                opponentId == OpponentOf(game, s)
                notified == opponentId # None /\ sockets[opponentId[1]] = "connected"
                opponentUsername == game.players[opponentId[1]].username
            IN /\ activeGames' = Without(activeGames, gameId)
               /\ detachedGames' = IF gameId \in HeldGames(awaiting)
                                    THEN With(detachedGames, gameId, game) ELSE detachedGames
               /\ leaderboard' =
                    IF notified /\ BattleStarted(game)
                    THEN With(leaderboard, opponentUsername,
                              (IF opponentUsername \in DOMAIN leaderboard
                               THEN leaderboard[opponentUsername] ELSE 0) + 1)
                    ELSE leaderboard
               /\ emitted' =
                    IF notified
                    THEN <<[to |-> {opponentId[1]}, event |-> "opponentDisconnected",
                            data |-> <<game.players[s].username,
                                       IF BattleStarted(game) THEN "You win!"
                                       ELSE "Match cancelled.">>]>>
                    ELSE <<>>
               /\ rooms' = [g \in DOMAIN rooms |->
                              IF g = gameId /\ opponentId # None
                              THEN rooms[g] \ {s, opponentId[1]} ELSE rooms[g] \ {s}]
    /\ UNCHANGED <<availablePokemonDetails, pokemonDataCache, pokemonFetchPromises,
                   moveDataCache, moveFetchPromises, producers, moveFetches, awaiting, history>>

\* ---- performAction
AttackAction(moveName) == [type |-> "attack", moveName |-> moveName, pokemonIndex |-> 0]
SwitchAction(pokemonIndex) == [type |-> "switch", moveName |-> "", pokemonIndex |-> pokemonIndex]
OtherAction == [type |-> "forfeit", moveName |-> "", pokemonIndex |-> 0]

ActionInputs ==
    {AttackAction(m) : m \in {"Tackle", "Growl", "tackle"}}
        \cup {SwitchAction(i) : i \in -1 .. 3} \cup {OtherAction}

\* a damage rule that treats a status move like any other move
calculateDamageOfAnyPower(attacker, defender, move) ==
    IF attacker.attack = 0 \/ defender.defense = 0 \/ defender.defense <= 0 THEN {0}
    ELSE LET baseDamage == ((attacker.attack * move.power) \div (defender.defense * 8)) + 2
         IN Max(1, (baseDamage * 85) \div 100) .. Max(1, baseDamage)

\* the values Math.floor(baseDamage * randomFactor) takes for a randomFactor
\* from 0.85 to 1.0, at least 1
calculateDamage(attacker, defender, move) ==
    IF attacker.attack = 0 \/ defender.defense = 0 \/ defender.defense <= 0 THEN {0}
    ELSE IF move.power = 0 THEN {0}
    ELSE LET baseDamage == ((attacker.attack * move.power) \div (defender.defense * 8)) + 2
         IN Max(1, (baseDamage * 85) \div 100) .. Max(1, baseDamage)

\* playerPokemon.moves?.find(m => m.name === action.moveName); None is undefined
FindMove(pokemon, moveName) ==
    LET hits == {i \in DOMAIN pokemon.moves : pokemon.moves[i].name = moveName}
    IN IF hits = {} THEN None
       ELSE Some(pokemon.moves[CHOOSE i \in hits : \A j \in hits : i <= j])

\* battleState.player1 / player2 by socket id (lines 290-291)
SideOf(game, s) == IF game.battleState[1].player1.id = s THEN "player1" ELSE "player2"
OtherSide(side) == IF side = "player1" THEN "player2" ELSE "player1"

\* a leaderboard update that awards nothing
NoWin(board, username) == board

\* leaderboard[username] = (leaderboard[username] || 0) + 1
Wins(board, username) ==
    With(board, username, (IF username \in DOMAIN board THEN board[username] ELSE 0) + 1)

\* a faint that leaves the health where the damage took it
FaintBelowZero(pokemon) == [pokemon EXCEPT !.fainted = TRUE]

\* opponentPokemon.currentHp = 0; opponentPokemon.fainted = true (line 313)
Faint(pokemon) == [pokemon EXCEPT !.currentHp = 0, !.fainted = TRUE]

\* a faint that hands over the turn without the obligation to switch
TurnWithoutObligation(game, opponentId, theirs) == [game EXCEPT !.turn = opponentId]

\* game.turn = opponentId; opponentState.mustSwitch = true (line 316)
ForceSwitch(game, opponentId, theirs) ==
    [game EXCEPT !.turn = opponentId, !.battleState[1][theirs].mustSwitch = TRUE]

\* the attack branch (lines 301-317) with the damage drawn; game.log is
\* already cleared
Attack(game, s, move, damage) ==
    LET mine == SideOf(game, s)
        theirs == OtherSide(mine)
        opponentId == game.battleState[1][theirs].id
        target == game.battleState[1][theirs].activePokemon + 1
        playerState == game.battleState[1][mine]
        opponentState == game.battleState[1][theirs]
        playerPokemon == ActivePokemon(game, mine)
        opponentPokemon == ActivePokemon(game, theirs)
        hp == opponentPokemon.currentHp - damage
        used == <<Line("used", <<playerState.username, playerPokemon.name, move.name>>, 0),
                  IF move.power > 0
                  THEN Line("took damage", <<opponentState.username, opponentPokemon.name>>, damage)
                  ELSE Line("no effect", <<>>, 0)>>
        hit == [game EXCEPT !.players[opponentId].team[target].currentHp = hp,
                            !.log = used]
        fainted == [hit EXCEPT !.players[opponentId].team[target] = Faint(@),
                               !.log = Append(used, Line("fainted", <<opponentState.username,
                                                                       opponentPokemon.name>>, 0))]
        availableOpponentPokemon ==
            {i \in DOMAIN fainted.players[opponentId].team :
                ~fainted.players[opponentId].team[i].fainted}
    IN IF hp <= 0
       THEN IF availableOpponentPokemon = {}
            THEN [game |-> fainted, gameOver |-> TRUE, turnEnded |-> FALSE]
            ELSE [game |-> ForceSwitch(fainted, opponentId, theirs),
                  gameOver |-> FALSE, turnEnded |-> TRUE]
       ELSE [game |-> hit, gameOver |-> FALSE, turnEnded |-> TRUE]

\* the switch branch (lines 321-326)
Switch(game, s, targetIndex) ==
    LET mine == SideOf(game, s)
        playerState == game.battleState[1][mine]
        oldPokemonName == ActivePokemon(game, mine).name
        team == game.players[playerState.id].team
    IN [game |-> [game EXCEPT !.battleState[1][mine].activePokemon = targetIndex,
                              !.battleState[1][mine].activePokemonIndex = targetIndex,
                              !.battleState[1][mine].mustSwitch = FALSE,
                              !.log = <<Line("switched", <<playerState.username, oldPokemonName,
                                                           team[targetIndex + 1].name>>, 0)>>],
        gameOver |-> FALSE, turnEnded |-> TRUE]

\* lines 330-348: r is what the action branch left
PostAction(s, gameId, r) ==
    LET game == r.game
        opponentId == OpponentOf(game, s)[1]
        theirs == OtherSide(SideOf(game, s))
    IN IF r.gameOver
       THEN LET over == [game EXCEPT !.log = Append(@, Line("Game Over!",
                                <<game.players[s].username, game.players[opponentId].username>>, 0))]
                games == With(activeGames, gameId, over)
            IN /\ leaderboard' = Wins(leaderboard, game.players[s].username)
               /\ emitted' = <<ToRoom(gameId, "gameStateUpdate", getSanitizedGameState(games, gameId)),
                               ToRoom(gameId, "gameOver",
                                      [winnerId |-> s,
                                       finalState |-> getSanitizedGameState(games, gameId)])>>
               /\ activeGames' = Without(activeGames, gameId)
               /\ detachedGames' = IF gameId \in HeldGames(awaiting)
                                    THEN With(detachedGames, gameId, over) ELSE detachedGames
               /\ rooms' = [rooms EXCEPT ![gameId] = @ \ SeqToSet(game.playerOrder)]
       ELSE LET passed == IF ~game.battleState[1][theirs].mustSwitch
                          THEN [game EXCEPT !.turn = opponentId,
                                            !.log = Append(@, Line("turn",
                                                <<game.battleState[1][theirs].username>>, 0))]
                          ELSE [game EXCEPT !.log = Append(@, Line("must switch",
                                                <<game.battleState[1][theirs].username>>, 0))]
                games == With(activeGames, gameId, passed)
            IN /\ activeGames' = games
               /\ emitted' =
                    <<ToRoom(gameId, "gameStateUpdate", getSanitizedGameState(games, gameId))>>
                    \o (IF game.battleState[1][theirs].mustSwitch
                        THEN <<ToSocket(opponentId, "forceSwitch", <<"fainted">>)>> ELSE <<>>)
               /\ UNCHANGED <<leaderboard, detachedGames, rooms>>

\* a return before the action took effect; cleared: game.log = [] has run
RejectAction(s, gameId, cleared, events) ==
    /\ activeGames' = IF cleared THEN [activeGames EXCEPT ![gameId].log = <<>>] ELSE activeGames
    /\ emitted' = events
    /\ UNCHANGED <<leaderboard, detachedGames, rooms>>

\* the basic checks without the test of whose turn it is
RefusedOutOfBattle(games, gameId, s) ==
    \/ gameId \notin DOMAIN games
    \/ games[gameId].battleState = None

\* !game || !game.battleState || socket.id !== game.turn
Refused(games, gameId, s) ==
    \/ gameId \notin DOMAIN games
    \/ games[gameId].battleState = None
    \/ s # games[gameId].turn

\* the check of the switch target without its test of the fainted flag
IllegalTargetUnlessFainted(team, targetIndex, playerPokemon) ==
    \/ targetIndex < 0
    \/ targetIndex >= Len(team)
    \/ team[targetIndex + 1].id = playerPokemon.id

\* targetIndex < 0 || targetIndex >= team.length || !team[targetIndex] ||
\* team[targetIndex].fainted || team[targetIndex].id === playerPokemon.id
IllegalTarget(team, targetIndex, playerPokemon) ==
    \/ targetIndex < 0
    \/ targetIndex >= Len(team)
    \/ team[targetIndex + 1].fainted
    \/ team[targetIndex + 1].id = playerPokemon.id

\* the forced switch check (line 295)
ForcedSwitchPending(playerState, action) == playerState.mustSwitch /\ action.type # "switch"

\* socket.on('performAction')
PerformAction(s, gameId, action) ==
    /\ NoRunnable
    /\ sockets[s] = "connected"
    /\ IF Refused(activeGames, gameId, s)
       THEN RejectAction(s, gameId, FALSE, <<>>)
       ELSE LET game == activeGames[gameId]
                mine == SideOf(game, s)
                playerState == game.battleState[1][mine]
                playerPokemon == ActivePokemon(game, mine)
                opponentPokemon == ActivePokemon(game, OtherSide(mine))
                cleared == [game EXCEPT !.log = <<>>]
            IN IF ForcedSwitchPending(playerState, action)
               THEN RejectAction(s, gameId, FALSE, <<>>)
               ELSE IF action.type = "attack"
               THEN LET move == FindMove(playerPokemon, action.moveName)
                    IN IF move = None \/ playerPokemon.fainted
                       THEN RejectAction(s, gameId, TRUE, <<>>)
                       ELSE \E damage \in calculateDamage(playerPokemon, opponentPokemon, move[1]) :
                               PostAction(s, gameId, Attack(cleared, s, move[1], damage))
               ELSE IF action.type = "switch"
               THEN LET team == game.players[playerState.id].team
                        targetIndex == action.pokemonIndex
                    IN IF IllegalTarget(team, targetIndex, playerPokemon)
                       THEN RejectAction(s, gameId, TRUE, <<>>)
                       ELSE PostAction(s, gameId, Switch(cleared, s, targetIndex))
               ELSE RejectAction(s, gameId, TRUE,
                                 <<ToSocket(s, "gameError", <<"Unknown action type.">>)>>)
    /\ UNCHANGED <<sockets, waitingPlayer, availablePokemonDetails, pokemonDataCache,
                   pokemonFetchPromises, moveDataCache, moveFetchPromises, producers,
                   moveFetches, awaiting, history>>

Next ==
    \/ \E c \in DOMAIN awaiting : InitializeResume(c)
    \/ \E p \in DOMAIN producers, ok \in BOOLEAN : SpeciesResponse(p, ok)
    \/ \E f \in DOMAIN moveFetches, ok \in BOOLEAN : MoveResponse(f, ok)
    \/ \E s \in Sockets : FindMatch(s)
    \/ \E s \in Sockets, gameId \in GameIdInputs, teamIds \in TeamIdInputs :
            SelectTeam(s, gameId, teamIds)
    \/ \E c \in DOMAIN awaiting : SelectTeamResume(c)
    \/ \E s \in Sockets, gameId \in GameIdInputs, action \in ActionInputs :
            PerformAction(s, gameId, action)
    \/ \E s \in Sockets : Disconnect(s)

Spec == Init /\ [][Next]_vars

\* ------------------------------------------- the selection, from a match
\* Both sessions asked for a match while the start-up requests were still
\* in flight: "a" waited, "b" was paired with it.
Matched(player1, player2) ==
    /\ sockets = [s \in Sockets |-> "connected"]
    /\ waitingPlayer = None
    /\ activeGames = With(EmptyMap, 1, NewGame(1, player1, player2))
    /\ detachedGames = EmptyMap
    /\ leaderboard = EmptyMap
    /\ rooms = With(EmptyMap, 1, {player1, player2})
    /\ emitted = <<[to |-> {player1}, event |-> "matchFound", data |-> <<1, Username(player2)>>],
                   [to |-> {player2}, event |-> "matchFound", data |-> <<1, Username(player1)>>]>>

InitMatched ==
    /\ Matched("a", "b")
    /\ availablePokemonDetails = <<>>
    /\ pokemonDataCache = initializeAvailablePokemon.pokemonDataCache
    /\ pokemonFetchPromises = initializeAvailablePokemon.pokemonFetchPromises
    /\ moveDataCache = initializeAvailablePokemon.moveDataCache
    /\ moveFetchPromises = initializeAvailablePokemon.moveFetchPromises
    /\ producers = initializeAvailablePokemon.producers
    /\ moveFetches = initializeAvailablePokemon.moveFetches
    /\ awaiting = initializeAvailablePokemon.awaiting
    /\ history = [initializeAvailablePokemon.history EXCEPT !.games = 1]

NextSelect ==
    \/ \E c \in DOMAIN awaiting : InitializeResume(c)
    \/ \E p \in DOMAIN producers, ok \in BOOLEAN : SpeciesResponse(p, ok)
    \/ \E f \in DOMAIN moveFetches, ok \in BOOLEAN : MoveResponse(f, ok)
    \/ \E s \in Sockets, gameId \in GameIdInputs, teamIds \in TeamIdInputs :
            SelectTeam(s, gameId, teamIds)
    \/ \E c \in DOMAIN awaiting : SelectTeamResume(c)

SpecSelect == InitMatched /\ [][NextSelect]_vars

\* ---------------------------------------------- the battle, from a match
\* The start-up requests were all answered before the sessions were paired:
\* every species and move is cached and nothing is in flight.
RECURSIVE Answered(_)
Answered(w) ==
    IF \E p \in DOMAIN w.producers : w.producers[p].stage = "species"
    THEN Answered(StartMoves(w, CHOOSE p \in DOMAIN w.producers : w.producers[p].stage = "species"))
    ELSE IF DOMAIN w.moveFetches # {}
    THEN Answered(SettleMove(w, CHOOSE f \in DOMAIN w.moveFetches : TRUE, TRUE))
    ELSE w

Started == Answered(initializeAvailablePokemon)

InitBattle ==
    /\ Matched("a", "b")
    /\ availablePokemonDetails = Available(Started.awaiting[InitCaller].slots)
    /\ pokemonDataCache = Started.pokemonDataCache
    /\ pokemonFetchPromises = Started.pokemonFetchPromises
    /\ moveDataCache = Started.moveDataCache
    /\ moveFetchPromises = Started.moveFetchPromises
    /\ producers = Started.producers
    /\ moveFetches = Started.moveFetches
    /\ awaiting = EmptyMap
    /\ history = [Started.history EXCEPT !.games = 1]

BattleTeamInputs == {Arr(<<Num(1), Num(1), Num(4)>>), NotArray}

NextBattle ==
    \/ \E s \in Sockets, gameId \in GameIdInputs, teamIds \in BattleTeamInputs :
            SelectTeam(s, gameId, teamIds)
    \/ \E c \in DOMAIN awaiting : SelectTeamResume(c)
    \/ \E s \in Sockets, gameId \in GameIdInputs, action \in ActionInputs :
            PerformAction(s, gameId, action)

SpecBattle == InitBattle /\ [][NextBattle]_vars

\* ------------------------------------------------ the lobby and the match
\* The start-up requests were all answered before anybody asked for a match:
\* sessions pair up (also while already in a match), select, fight and leave.
InitLobby ==
    /\ sockets = [s \in Sockets |-> "connected"]
    /\ waitingPlayer = None
    /\ activeGames = EmptyMap
    /\ detachedGames = EmptyMap
    /\ leaderboard = EmptyMap
    /\ rooms = EmptyMap
    /\ emitted = <<>>
    /\ availablePokemonDetails = Available(Started.awaiting[InitCaller].slots)
    /\ pokemonDataCache = Started.pokemonDataCache
    /\ pokemonFetchPromises = Started.pokemonFetchPromises
    /\ moveDataCache = Started.moveDataCache
    /\ moveFetchPromises = Started.moveFetchPromises
    /\ producers = Started.producers
    /\ moveFetches = Started.moveFetches
    /\ awaiting = EmptyMap
    /\ history = Started.history

LobbyTeamInputs == {Arr(<<Num(1), Num(1), Num(4)>>)}

\* the sessions of this specification select once in each of their matches,
\* act when it is their turn, attack with Tackle and switch only when they
\* have to (refused inputs are the subject of the other specifications)
LobbySelections(s) ==
    {g \in DOMAIN activeGames :
        s \in DOMAIN activeGames[g].players /\ ~activeGames[g].players[s].hasSelected}

LobbyTurns(s) ==
    {g \in DOMAIN activeGames : activeGames[g].battleState # None /\ activeGames[g].turn = s}

LobbyActionInputs(s, gameId) ==
    IF activeGames[gameId].battleState[1][SideOf(activeGames[gameId], s)].mustSwitch
    THEN {SwitchAction(1), SwitchAction(2)}
    ELSE {AttackAction("Tackle")}

NextLobby ==
    \/ \E s \in Sockets : FindMatch(s)
    \/ \E s \in Sockets, teamIds \in LobbyTeamInputs :
            \E gameId \in LobbySelections(s) : SelectTeam(s, gameId, teamIds)
    \/ \E c \in DOMAIN awaiting : SelectTeamResume(c)
    \/ \E s \in Sockets :
            \E gameId \in LobbyTurns(s) :
                \E action \in LobbyActionInputs(s, gameId) : PerformAction(s, gameId, action)
    \/ \E s \in Sockets : Disconnect(s)

SpecLobby == InitLobby /\ [][NextLobby]_vars

\* ------------------------------------------------------ the damage rule
\* A battle between two teams of one species whose attack and defense stats
\* and whose move's power are drawn from the sets below; the sessions attack.
AttackInputs == {0, 8, 80}
DefenseInputs == {8, 50}
PowerInputs == {0, 8, 40}

\* the cached data of species 1 had the remote source sent these numbers
DrawnSpecies(attack, defense, power) ==
    LET sent == Started.pokemonDataCache["1"]
    IN [sent EXCEPT !.attack = attack, !.defense = defense,
                    !.moves = <<[name |-> "Tackle", power |-> power, ref |-> sent.ref]>>]

\* match 1 after both sessions have selected three creatures of that species
DrawnBattle(attack, defense, power) ==
    LET template == structuredClone(DrawnSpecies(attack, defense, power), Ref("drawn", NoId, 0))
        ids == <<Some(template), Some(template), Some(template)>>
    IN StoreTeam(StoreTeam(NewGame(1, "a", "b"), "a", ids).game, "b", ids).game

InitDamage ==
    /\ \E attack \in AttackInputs, defense \in DefenseInputs, power \in PowerInputs :
            /\ activeGames = With(EmptyMap, 1, DrawnBattle(attack, defense, power))
            /\ pokemonDataCache = With(Started.pokemonDataCache, "1",
                                        DrawnSpecies(attack, defense, power))
    /\ sockets = [s \in Sockets |-> "connected"]
    /\ waitingPlayer = None
    /\ detachedGames = EmptyMap
    /\ leaderboard = EmptyMap
    /\ rooms = With(EmptyMap, 1, {"a", "b"})
    /\ emitted = <<>>
    /\ availablePokemonDetails = Available(Started.awaiting[InitCaller].slots)
    /\ pokemonFetchPromises = Started.pokemonFetchPromises
    /\ moveDataCache = Started.moveDataCache
    /\ moveFetchPromises = Started.moveFetchPromises
    /\ producers = Started.producers
    /\ moveFetches = Started.moveFetches
    /\ awaiting = EmptyMap
    /\ history = [Started.history EXCEPT !.games = 1]

NextDamage ==
    \E s \in Sockets, action \in {AttackAction("Tackle"), SwitchAction(1)} :
        PerformAction(s, 1, action)

SpecDamage == InitDamage /\ [][NextDamage]_vars

\* ------------------------------------- selection while requests are in flight
\* The sessions were paired while the start-up requests were still in flight
\* (InitMatched).  A session may send selectTeam again as long as none of its
\* submissions has resumed, and the battle is fought while a submission still
\* waits for a request; the remote source answers every request.
ResubmitTeamInputs == {Arr(<<Num(1), Num(1), Num(1)>>), Arr(<<Num(1), Num(1), Num(4)>>)}

NextResubmit ==
    \/ \E c \in DOMAIN awaiting : InitializeResume(c)
    \/ \E p \in DOMAIN producers : SpeciesResponse(p, TRUE)
    \/ \E f \in DOMAIN moveFetches : MoveResponse(f, TRUE)
    \/ \E s \in Sockets, teamIds \in ResubmitTeamInputs :
            \E gameId \in LobbySelections(s) :
                SelectTeamWithin(s, gameId, teamIds, MaxSubmissions + 1)
    \/ \E c \in DOMAIN awaiting : SelectTeamResume(c)
    \/ \E s \in Sockets :
            \E gameId \in LobbyTurns(s) :
                \E action \in LobbyActionInputs(s, gameId) : PerformAction(s, gameId, action)

SpecResubmit == InitMatched /\ [][NextResubmit]_vars

\* =============================================================== properties
\* the identifier the i-th getPokemonDetails call of caller c was made for
SlotKey(c, i) == Identifier(awaiting[c].ids[i])

\* what a value holds, apart from which objects hold it
NoRef == Ref("", NoId, 0)
Content(data) == structuredClone(data, NoRef)
ContentOf(value) == IF value = None THEN None ELSE Some(Content(value[1]))

\* the getPokemonDetails calls that have settled and whose callers have not
\* yet resumed, as <<caller, index>>
SettledCalls == {ci \in UNION {{<<c, i>> : i \in DOMAIN awaiting[c].slots} : c \in DOMAIN awaiting} :
                    awaiting[ci[1]].slots[ci[2]].done}
SuspendedCalls == {ci \in UNION {{<<c, i>> : i \in DOMAIN awaiting[c].slots} : c \in DOMAIN awaiting} :
                    ~awaiting[ci[1]].slots[ci[2]].done}
CallSlot(ci) == awaiting[ci[1]].slots[ci[2]]

\* the same for the getMoveDetails calls of the producers in flight
MoveCalls == UNION {{<<p, i>> : i \in DOMAIN producers[p].slots} : p \in DOMAIN producers}
MoveSlot(pi) == producers[pi[1]].slots[pi[2]]

\* ---- C1
\* C1 (coalescing): at any time a key has at most one request in flight, for
\* species and for moves alike; every call that is suspended on a key waits on
\* that one request, so N calls made before it settles cause one request; and
\* the calls that one request settled hold values of equal content.
C1_Coalescing ==
    /\ \A p, q \in DOMAIN producers :
            producers[p].identifier = producers[q].identifier => p = q
    /\ \A f, g \in DOMAIN moveFetches :
            moveFetches[f].words = moveFetches[g].words => f = g
    /\ \A ci \in SuspendedCalls :
            /\ CallSlot(ci).wait \in DOMAIN producers
            /\ producers[CallSlot(ci).wait].identifier = SlotKey(ci[1], ci[2])
            /\ SlotKey(ci[1], ci[2]) \in DOMAIN pokemonFetchPromises
            /\ pokemonFetchPromises[SlotKey(ci[1], ci[2])] = CallSlot(ci).wait
    /\ \A pi \in MoveCalls :
            ~MoveSlot(pi).done =>
                /\ MoveSlot(pi).wait \in DOMAIN moveFetches
                /\ LET moveName == Join(moveFetches[MoveSlot(pi).wait].words, "-")
                   IN /\ moveName \in DOMAIN moveFetchPromises
                      /\ moveFetchPromises[moveName] = MoveSlot(pi).wait
    /\ \A ci, dj \in SettledCalls :
            (CallSlot(ci).wait # NoId /\ CallSlot(ci).wait = CallSlot(dj).wait)
                => ContentOf(CallSlot(ci).value) = ContentOf(CallSlot(dj).value)
    /\ \A pi, qj \in MoveCalls :
            (/\ MoveSlot(pi).done /\ MoveSlot(qj).done
             /\ MoveSlot(pi).wait # NoId /\ MoveSlot(pi).wait = MoveSlot(qj).wait)
                => structuredCloneMove(MoveSlot(pi).value[1], NoRef)
                    = structuredCloneMove(MoveSlot(qj).value[1], NoRef)

\* two callers hold the values one species request produced for both, and
\* that request was the only one ever made for the key
C1_Witness ==
    \E ci, dj \in SettledCalls :
        /\ ci[1] # dj[1]
        /\ CallSlot(ci).wait # NoId
        /\ CallSlot(ci).wait = CallSlot(dj).wait
        /\ CallSlot(ci).value # None
        /\ history.pokemonRequests[SlotKey(ci[1], ci[2])] = 1

\* ---- C2
\* the objects reachable from a creature value: the value and its moves
Refs(data) == {data.ref} \cup {data.moves[i].ref : i \in DOMAIN data.moves}

\* everything that holds a creature or move object, with the objects it holds:
\* the two caches, the creatures of every team, and the values returned to
\* calls whose callers have not resumed yet
Holders ==
    {[holder |-> <<"pokemonDataCache", k, 0, 0>>, refs |-> Refs(pokemonDataCache[k])] :
        k \in DOMAIN pokemonDataCache}
    \cup {[holder |-> <<"moveDataCache", m, 0, 0>>, refs |-> {moveDataCache[m].ref}] :
        m \in DOMAIN moveDataCache}
    \cup UNION {UNION {{[holder |-> <<"team", s, g, i>>,
                         refs |-> Refs(activeGames[g].players[s].team[i])] :
                            i \in DOMAIN activeGames[g].players[s].team} :
                    s \in DOMAIN activeGames[g].players} : g \in DOMAIN activeGames}
    \cup {[holder |-> <<"call", ci[1][1], ci[1][2], ci[2]>>, refs |-> Refs(CallSlot(ci).value[1])] :
        ci \in {dj \in SettledCalls : CallSlot(dj).value # None}}
    \cup {[holder |-> <<"moveCall", pi[1][1], pi[1][2], pi[2]>>, refs |-> {MoveSlot(pi).value[1].ref}] :
        pi \in {qj \in MoveCalls : MoveSlot(qj).done}}

\* C2 (cache immutability): no object is shared between two holders.  A cache
\* entry, a value returned to a call (from the cache, to the call that started
\* the request, or to a call that followed it) and a creature of a team (one
\* species picked twice, two players, any slot) are pairwise distinct objects,
\* so a write to currentHp or fainted through one of them reaches no other.
C2_CacheImmutability ==
    \A x, y \in Holders : x.holder # y.holder => x.refs \cap y.refs = {}

\* both players hold teams in which one cached species appears twice
C2_Witness ==
    \E g \in DOMAIN activeGames :
        /\ \A s \in DOMAIN activeGames[g].players :
                /\ Len(activeGames[g].players[s].team) = 3
                /\ \E i, j \in 1 .. 3 :
                        /\ i # j
                        /\ activeGames[g].players[s].team[i].apiId
                            = activeGames[g].players[s].team[j].apiId
                        /\ activeGames[g].players[s].team[i].apiId \in DOMAIN pokemonDataCache

\* ---- C3
\* this step is the failure of the species request of producer p
SpeciesRequestFails(p) ==
    /\ p \in DOMAIN producers
    /\ producers[p].stage = "species"
    /\ history'.pokemonFailed[producers[p].identifier]
        = history.pokemonFailed[producers[p].identifier] + 1

\* this step is a caller c making its getPokemonDetails calls
CallerStarts(c) == c \notin DOMAIN awaiting /\ c \in DOMAIN awaiting'

\* C3 (species fetch failure): in the step in which a species request fails,
\* every call waiting on it (the one that started it and its followers)
\* settles with null and its caller stays alive to read it, the cache is
\* not written, and the pending entry of the key is gone; and a call made for
\* a key that has failed and is neither cached nor pending starts a new
\* request for it.
C3_SpeciesFailure ==
    [][/\ \A p \in DOMAIN producers :
            SpeciesRequestFails(p) =>
                /\ p \notin DOMAIN producers'
                /\ pokemonDataCache' = pokemonDataCache
                /\ producers[p].identifier \notin DOMAIN pokemonDataCache'
                /\ producers[p].identifier \notin DOMAIN pokemonFetchPromises'
                /\ \A ci \in SuspendedCalls :
                        CallSlot(ci).wait = p =>
                            /\ ci[1] \in DOMAIN awaiting'
                            /\ awaiting'[ci[1]].slots[ci[2]].done
                            /\ awaiting'[ci[1]].slots[ci[2]].value = None
       /\ \A c \in DOMAIN awaiting' :
            CallerStarts(c) =>
                \A i \in DOMAIN awaiting'[c].ids :
                    LET k == Identifier(awaiting'[c].ids[i])
                        first == CHOOSE j \in DOMAIN awaiting'[c].ids :
                                    /\ Identifier(awaiting'[c].ids[j]) = k
                                    /\ \A h \in DOMAIN awaiting'[c].ids :
                                            Identifier(awaiting'[c].ids[h]) = k => j <= h
                    IN (/\ history.pokemonFailed[k] > 0
                        /\ k \notin DOMAIN pokemonDataCache
                        /\ k \notin DOMAIN pokemonFetchPromises)
                        => /\ ~awaiting'[c].slots[i].done
                           /\ awaiting'[c].slots[i].wait \notin DOMAIN producers
                           /\ awaiting'[c].slots[i].wait \in DOMAIN producers'
                           /\ awaiting'[c].slots[i].wait = awaiting'[c].slots[first].wait
                           /\ history'.pokemonRequests[k] = history.pokemonRequests[k] + 1
      ]_vars

\* a species request has failed, a waiting call holds null for it, and a later
\* call has started the second request for the key
C3_Witness ==
    \E ci \in SettledCalls :
        /\ CallSlot(ci).value = None
        /\ history.pokemonFailed[SlotKey(ci[1], ci[2])] = 1
        /\ history.pokemonRequests[SlotKey(ci[1], ci[2])] = 2
        /\ SlotKey(ci[1], ci[2]) \in DOMAIN pokemonFetchPromises

\* ---- C4
\* this step is the failure of the request of move fetch f
MoveRequestFails(f) ==
    /\ f \in DOMAIN moveFetches
    /\ history'.moveFailed[Join(moveFetches[f].words, "-")]
        = history.moveFailed[Join(moveFetches[f].words, "-")] + 1

\* in the step in which the request of move fetch f fails, every producer
\* waiting on it gets a move entry called `name` with power 0 in the place
\* of that move, and a producer that waited for nothing else finishes: its
\* creature is cached with that entry and its callers get a non-null value
FallsBackTo(f, name) ==
    \A pi \in MoveCalls :
        (~MoveSlot(pi).done /\ MoveSlot(pi).wait = f) =>
            LET p == pi[1]
                i == pi[2]
                identifier == producers[p].identifier
                last == \A j \in DOMAIN producers[p].slots :
                            j # i => (producers[p].slots[j].done \/ producers[p].slots[j].wait = f)
            IN IF last
               THEN /\ p \notin DOMAIN producers'
                    /\ identifier \in DOMAIN pokemonDataCache'
                    /\ identifier \notin DOMAIN pokemonFetchPromises'
                    /\ pokemonDataCache'[identifier].moves[i].name = name
                    /\ pokemonDataCache'[identifier].moves[i].power = 0
                    /\ \A ci \in SuspendedCalls :
                            CallSlot(ci).wait = p =>
                                /\ awaiting'[ci[1]].slots[ci[2]].done
                                /\ awaiting'[ci[1]].slots[ci[2]].value # None
                                /\ awaiting'[ci[1]].slots[ci[2]].value[1].moves[i].name = name
                                /\ awaiting'[ci[1]].slots[ci[2]].value[1].moves[i].power = 0
               ELSE /\ p \in DOMAIN producers'
                    /\ producers'[p].slots[i].done
                    /\ producers'[p].slots[i].value[1].name = name
                    /\ producers'[p].slots[i].value[1].power = 0

\* C4 (move fallback), as the code has it: when the move request for a key
\* such as "tackle" fails while creatures that selected the move are being
\* resolved, each of them still resolves (non-null, cached) and holds in the
\* place of that move an entry with power 0 whose name is the key itself,
\* "tackle", unformatted.
C4_MoveFallback ==
    [][\A f \in DOMAIN moveFetches :
            MoveRequestFails(f) => FallsBackTo(f, Join(moveFetches[f].words, "-"))]_vars

\* C4 as the claim words it: the entry is named like a fetched move, "Tackle"
C4_FallbackNamedTackle ==
    [][\A f \in DOMAIN moveFetches :
            (MoveRequestFails(f) /\ Join(moveFetches[f].words, "-") = "tackle")
                => FallsBackTo(f, "Tackle")]_vars

\* the request for "tackle" has failed and a cached creature holds the
\* fallback entry
C4_Witness ==
    /\ history.moveFailed["tackle"] = 1
    /\ \E k \in DOMAIN pokemonDataCache :
            \E i \in DOMAIN pokemonDataCache[k].moves :
                /\ pokemonDataCache[k].moves[i].name = "tackle"
                /\ pokemonDataCache[k].moves[i].power = 0

\* ---- C5
\* a species / move request that succeeded has left its value in the cache
\* and its key out of the promise map, in every state a caller can run in
StoredOnSuccess ==
    /\ \A k \in Identifiers :
            /\ history.pokemonOk[k] <= 1
            /\ k \in DOMAIN pokemonDataCache <=> history.pokemonOk[k] = 1
            /\ k \in DOMAIN pokemonDataCache => k \notin DOMAIN pokemonFetchPromises
    /\ \A m \in MoveNames :
            /\ history.moveOk[m] <= 1
            /\ m \in DOMAIN moveDataCache <=> history.moveOk[m] = 1
            /\ m \in DOMAIN moveDataCache => m \notin DOMAIN moveFetchPromises
    /\ \A ci \in SettledCalls :
            CallSlot(ci).value # None =>
                /\ SlotKey(ci[1], ci[2]) \in DOMAIN pokemonDataCache
                /\ Content(pokemonDataCache[SlotKey(ci[1], ci[2])]) = Content(CallSlot(ci).value[1])

\* once a key is cached it stays cached with the same value and no request
\* is made for it again
NoRequestOnceCached ==
    /\ \A k \in DOMAIN pokemonDataCache :
            /\ k \in DOMAIN pokemonDataCache'
            /\ pokemonDataCache'[k] = pokemonDataCache[k]
            /\ history'.pokemonRequests[k] = history.pokemonRequests[k]
    /\ \A m \in DOMAIN moveDataCache :
            /\ m \in DOMAIN moveDataCache'
            /\ moveDataCache'[m] = moveDataCache[m]
            /\ history'.moveRequests[m] = history.moveRequests[m]

\* C5: when a request for a key has succeeded the value is cached and the
\* pending entry gone before any caller that awaited it runs, and from then
\* on no request is made for the key: at most one request per key succeeds.
C5_OneSuccessfulProducer == []StoredOnSuccess /\ [][NoRequestOnceCached]_vars

\* a call made after the request for its key succeeded was served from the
\* cache, while the one request ever made for the key stays the only one
C5_Witness ==
    \E ci \in SettledCalls :
        /\ CallSlot(ci).wait = NoId
        /\ CallSlot(ci).value # None
        /\ history.pokemonOk[SlotKey(ci[1], ci[2])] = 1
        /\ history.pokemonRequests[SlotKey(ci[1], ci[2])] = 1

\* ---- C6
\* the template a creature instance was made from
TemplateOf(pokemon) ==
    [id |-> pokemon.id, apiId |-> pokemon.apiId, name |-> pokemon.name, hp |-> pokemon.hp,
     attack |-> pokemon.attack, defense |-> pokemon.defense, speed |-> pokemon.speed,
     spriteUrl |-> pokemon.spriteUrl, moves |-> pokemon.moves,
     abilityName |-> pokemon.abilityName, ref |-> pokemon.ref]

\* the values getPokemonDetails has returned and that are still held: by
\* callers that have not resumed (null included) and by the teams made from them
Returned ==
    {[key |-> SlotKey(ci[1], ci[2]), value |-> ContentOf(CallSlot(ci).value)] : ci \in SettledCalls}
    \cup UNION {UNION {{[key |-> activeGames[g].players[s].team[i].apiId,
                         value |-> Some(Content(TemplateOf(activeGames[g].players[s].team[i])))] :
                            i \in DOMAIN activeGames[g].players[s].team} :
                    s \in DOMAIN activeGames[g].players} : g \in DOMAIN activeGames}

\* C6 (idempotent resolution), as the code has it: any two getPokemonDetails
\* calls for one identifier that both return a creature (not null) return
\* the same moves, abilityName and base stats, whatever requests succeeded or
\* failed between them.
C6_IdempotentResolution ==
    \A x, y \in Returned :
        (x.key = y.key /\ x.value # None /\ y.value # None) => x.value = y.value

\* C6 as the claim words it: any two calls for one identifier return values
\* of identical content, a failed species request between them or not
C6_AnyTwoCallsAgree ==
    \A x, y \in Returned : x.key = y.key => x.value = y.value

\* after a request failed, a creature of a team and the value a later call
\* got for the same identifier from the cache are both held
C6_Witness ==
    /\ Failures(history) > 0
    /\ \E ci \in SettledCalls :
            /\ CallSlot(ci).value # None
            /\ CallSlot(ci).wait = NoId
            /\ \E g \in DOMAIN activeGames :
                    \E s \in DOMAIN activeGames[g].players :
                        \E i \in DOMAIN activeGames[g].players[s].team :
                            activeGames[g].players[s].team[i].apiId = SlotKey(ci[1], ci[2])

\* ---- C7
\* the selectTeam submissions of socket s for match g that are suspended at
\* `await Promise.all(fetchPromises)`
InFlight(s, g) ==
    {c \in DOMAIN awaiting :
        awaiting[c].kind = "selectTeam" /\ awaiting[c].socket = s /\ awaiting[c].game = g}

\* C7: a selectTeam that arrives while the same player's earlier submission
\* for the match is still awaiting resolution is rejected and changes
\* nothing: a player never has two submissions in flight, and once a team is
\* stored for a player no later step replaces it or starts the battle anew.
C7_SecondSubmissionRejected ==
    /\ [](\A g \in DOMAIN activeGames : \A s \in Sockets : Cardinality(InFlight(s, g)) <= 1)
    /\ [][\A g \in DOMAIN activeGames : \A s \in DOMAIN activeGames[g].players :
            activeGames[g].players[s].hasSelected =>
                /\ activeGames'[g].players[s].team = activeGames[g].players[s].team
                /\ activeGames[g].battleState # None =>
                        activeGames'[g].battleState = activeGames[g].battleState]_vars

\* C7, the consequence alone: a stored team is never replaced
C7_StoredTeamKept ==
    [][\A g \in DOMAIN activeGames : \A s \in DOMAIN activeGames[g].players :
            activeGames[g].players[s].hasSelected =>
                activeGames'[g].players[s].team = activeGames[g].players[s].team]_vars

\* ---- C8
\* a player slot holds no team and has not selected, or holds three creature
\* instances, each at full health, and has selected
TeamsComplete ==
    \A g \in DOMAIN activeGames : \A s \in DOMAIN activeGames[g].players :
        LET player == activeGames[g].players[s]
        IN IF player.hasSelected
           THEN /\ Len(player.team) = 3
                /\ \A i \in 1 .. 3 :
                        /\ player.team[i].apiId \in Identifiers
                        /\ player.team[i].currentHp = player.team[i].hp
                        /\ player.team[i].maxHp = player.team[i].hp
                        /\ ~player.team[i].fainted
           ELSE player.team = <<>>

\* the selectTeam submissions that resume in this step
Resumed == {c \in DOMAIN awaiting : c \notin DOMAIN awaiting' /\ awaiting[c].kind = "selectTeam"}
Resolved(c) == \A i \in DOMAIN awaiting[c].slots : awaiting[c].slots[i].value # None

\* a match changes only in a step in which a submission for it resumes with
\* three resolved creatures, and then only the submitter's slot changes
OnlyResolvedSubmissionStores ==
    \A g \in DOMAIN activeGames :
        /\ g \in DOMAIN activeGames'
        /\ activeGames'[g] # activeGames[g] =>
                \E c \in Resumed :
                    /\ awaiting[c].game = g
                    /\ Len(awaiting[c].slots) = 3
                    /\ Resolved(c)
                    /\ \A s \in DOMAIN activeGames[g].players :
                            s # awaiting[c].socket =>
                                activeGames'[g].players[s] = activeGames[g].players[s]
        /\ \A c \in Resumed : ~Resolved(c) => activeGames' = activeGames

\* C8: a selectTeam that does not succeed (unknown match, player not in it,
\* already selected, teamIds not an array of 3 numbers, a resolution that
\* yields null) leaves team, hasSelected and the rest of the match as
\* they were, so a stored team always has exactly 3 creature instances.
C8_FailedSubmissionChangesNothing == []TeamsComplete /\ [][OnlyResolvedSubmissionStores]_vars

\* a player whose submission failed on a null resolution holds no team and may
\* submit again, while the other player's team of three is stored
C8_Witness ==
    \E g \in DOMAIN activeGames :
        \E s, t \in DOMAIN activeGames[g].players :
            /\ history.submissions[s] > 0
            /\ InFlight(s, g) = {}
            /\ ~activeGames[g].players[s].hasSelected
            /\ activeGames[g].players[s].team = <<>>
            /\ activeGames[g].players[t].hasSelected
            /\ Len(activeGames[g].players[t].team) = 3

\* ---- C9
\* the battle exists exactly when both player slots have selected; as
\* started, each side's active creature is the first of its team and the
\* turn is player one's unless player two's first creature is faster
BattleStartedRight ==
    \A g \in DOMAIN activeGames :
        LET game == activeGames[g]
            player1 == game.playerOrder[1]
            player2 == game.playerOrder[2]
        IN /\ game.battleState # None
                <=> (game.players[player1].hasSelected /\ game.players[player2].hasSelected)
           /\ game.battleState = None => game.turn = ""
           /\ game.battleState # None =>
                /\ game.players[player1].isPlayer1 /\ ~game.players[player2].isPlayer1
                /\ game.battleState[1].player1.id = player1
                /\ game.battleState[1].player2.id = player2
                /\ \A side \in {"player1", "player2"} :
                        /\ game.battleState[1][side].activePokemon = 0
                        /\ game.battleState[1][side].activePokemonIndex = 0
                        /\ ~game.battleState[1][side].mustSwitch
                /\ game.turn = IF game.players[player1].team[1].speed
                                    >= game.players[player2].team[1].speed
                                THEN player1 ELSE player2

\* the step in which a submission stores a team tells the room that the
\* battle starts when the other side has selected too, and else tells the
\* other side opponentReady and the submitter waitingForOpponentSelection
SelectionAnnounced ==
    \A c \in Resumed :
        (Resolved(c) /\ awaiting[c].game \in DOMAIN activeGames) =>
            LET g == awaiting[c].game
                s == awaiting[c].socket
                opponentId == OpponentOf(activeGames[g], s)[1]
            IN /\ activeGames'[g].players[s].hasSelected
               /\ IF activeGames'[g].players[opponentId].hasSelected
                  THEN /\ activeGames'[g].battleState # None
                       /\ emitted' = <<[to |-> rooms[g], event |-> "battleStart",
                                        data |-> getSanitizedGameState(activeGames', g)]>>
                  ELSE /\ activeGames'[g].battleState = None
                       /\ emitted' = <<[to |-> {opponentId}, event |-> "opponentReady",
                                        data |-> <<>>],
                                       [to |-> {s}, event |-> "waitingForOpponentSelection",
                                        data |-> <<>>]>>

\* C9 (battle start and turn order): the battle starts exactly when both
\* slots have selected, with each side's creature 0 active and the first
\* turn to player one (who waited for the match) if its creature's speed is
\* greater than or equal to player two's, else to player two; a single
\* completed side gets opponentReady sent to the other side and
\* waitingForOpponentSelection to the submitter.
C9_BattleStart == []BattleStartedRight /\ [][SelectionAnnounced]_vars

\* a battle started between first creatures of equal speed: player one moves
C9_Witness ==
    \E g \in DOMAIN activeGames :
        /\ activeGames[g].battleState # None
        /\ activeGames[g].players["a"].team[1].speed = activeGames[g].players["b"].team[1].speed
        /\ activeGames[g].turn = activeGames[g].playerOrder[1]
        /\ \E e \in SeqToSet(emitted) : e.event = "battleStart"

\* ---- C10
\* the state a gameStateUpdate of this step carries (None: the step sent none)
Update ==
    IF emitted' # <<>> /\ emitted'[1].event = "gameStateUpdate" THEN emitted'[1].data ELSE None

\* this step is an attack that took effect: its log opens with the line
\* "<username>'s <pokemon> used <move>!"
AttackTookEffect == Update # None /\ Update[1].log # <<>> /\ Update[1].log[1].text = "used"

\* the socket whose username the opening line of the log names
Actor == CHOOSE s \in Sockets : Username(s) = Update[1].log[1].args[1]

\* the attack that took effect was legal in the state it was made in
AttackWasLegal ==
    LET g == Update[1].gameId
        game == activeGames[g]
        mine == SideOf(game, Actor)
        playerPokemon == ActivePokemon(game, mine)
    IN /\ g \in DOMAIN activeGames
       /\ game.battleState # None
       /\ game.turn = Actor
       /\ game.battleState[1][mine].id = Actor
       /\ ~game.battleState[1][mine].mustSwitch
       /\ ~playerPokemon.fainted
       /\ playerPokemon.name = Update[1].log[1].args[2]
       /\ \E i \in DOMAIN playerPokemon.moves :
                playerPokemon.moves[i].name = Update[1].log[1].args[3]

\* the state sent after the attack differs from the state before it in the
\* health of the opponent's active creature at most
OnlyTargetDamaged ==
    LET g == Update[1].gameId
        game == activeGames[g]
        theirs == OtherSide(SideOf(game, Actor))
        target == game.battleState[1][theirs].activePokemon + 1
    IN \A side \in {"player1", "player2"} :
        LET before == game.players[game.battleState[1][side].id].team
            after == Update[1].battleState[side][1].team
        IN \A i \in DOMAIN before :
            IF side = theirs /\ i = target
            THEN /\ after[i].currentHp <= before[i].currentHp
                 /\ after[i].currentHp >= 0
                 /\ after[i].fainted <=> after[i].currentHp = 0
            ELSE /\ after[i].currentHp = before[i].currentHp
                 /\ after[i].fainted = before[i].fainted

\* a creature's health changes in an attack that took effect only, and the
\* turn in an attack or switch that took effect or at the battle start only
ChangesOnlyByAction ==
    \A g \in (DOMAIN activeGames) \cap (DOMAIN activeGames') :
        /\ (\E s \in DOMAIN activeGames[g].players :
                activeGames[g].players[s].hasSelected
                /\ activeGames'[g].players[s].team # activeGames[g].players[s].team)
                => AttackTookEffect /\ Update[1].gameId = g
        /\ (activeGames'[g].turn # activeGames[g].turn)
                => /\ activeGames'[g].log # <<>>
                   /\ activeGames'[g].log[1].text \in {"used", "switched", "Battle Start!"}

\* C10 (attack legality): an attack changes a creature's HP or the turn only
\* when the match is battling, it is the acting player's turn, that player has
\* no mustSwitch obligation, its active creature is not fainted and has a
\* move of the given name; and the damage goes to the opponent's active
\* creature only.
C10_AttackLegality ==
    [][/\ AttackTookEffect => (AttackWasLegal /\ OnlyTargetDamaged)
       /\ ChangesOnlyByAction]_vars

\* an attack has just taken part of the health of the opponent's active
\* creature and passed the turn
C10_Witness ==
    /\ emitted # <<>>
    /\ emitted[1].event = "gameStateUpdate"
    /\ emitted[1].data[1].log[1].text = "used"
    /\ \E g \in DOMAIN activeGames :
            \E s \in DOMAIN activeGames[g].players :
                \E i \in DOMAIN activeGames[g].players[s].team :
                    /\ activeGames[g].players[s].team[i].currentHp > 0
                    /\ activeGames[g].players[s].team[i].currentHp
                        < activeGames[g].players[s].team[i].maxHp
                    /\ activeGames[g].turn = s

\* ---- C11
\* the damage the attack of this step dealt: the number its second log line
\* gives ("... took <damage> damage."), 0 for "It had no effect..."
DamageDealt == IF Update[1].log[2].text = "took damage" THEN Update[1].log[2].n ELSE 0

\* the attack of this step either faints the target (health 0, fainted; with a
\* teammate standing the defender gets the turn, mustSwitch and a forceSwitch
\* event) or takes the damage off and passes the turn with no obligation
FaintOrPass ==
    LET g == Update[1].gameId
        game == activeGames[g]
        theirs == OtherSide(SideOf(game, Actor))
        defender == game.battleState[1][theirs].id
        target == game.battleState[1][theirs].activePokemon + 1
        before == game.players[defender].team[target]
        sent == Update[1].battleState[theirs][1]
        after == sent.team[target]
        standing == {i \in DOMAIN sent.team : ~sent.team[i].fainted}
        forced == {i \in DOMAIN emitted' : emitted'[i].event = "forceSwitch"}
    IN IF before.currentHp - DamageDealt <= 0
       THEN /\ after.currentHp = 0
            /\ after.fainted
            /\ standing # {} =>
                /\ g \in DOMAIN activeGames'
                /\ activeGames'[g].turn = defender
                /\ activeGames'[g].battleState[1][theirs].mustSwitch
                /\ activeGames'[g].players[defender].team[target].fainted
                /\ activeGames'[g].players[defender].team[target].currentHp = 0
                /\ Update[1].turn = defender
                /\ sent.mustSwitch
                /\ forced # {}
                /\ \A i \in forced : emitted'[i].to = {defender} \cap Connected
       ELSE /\ after.currentHp = before.currentHp - DamageDealt
            /\ ~after.fainted
            /\ g \in DOMAIN activeGames'
            /\ activeGames'[g].turn = defender
            /\ ~activeGames'[g].battleState[1][theirs].mustSwitch
            /\ ~sent.mustSwitch
            /\ forced = {}

\* while a side has to switch, a step leaves its match as it is (but for the
\* log, which a refused switch clears) unless the step is that side's switch
ObligationBlocksAttack ==
    \A g \in DOMAIN activeGames :
        \A side \in {"player1", "player2"} :
            (activeGames[g].battleState # None /\ activeGames[g].battleState[1][side].mustSwitch)
            => /\ g \in DOMAIN activeGames'
               /\ \/ activeGames'[g] = activeGames[g]
                  \/ activeGames'[g] = [activeGames[g] EXCEPT !.log = <<>>]
                  \/ /\ activeGames'[g].log # <<>>
                     /\ activeGames'[g].log[1].text = "switched"
                     /\ activeGames'[g].log[1].args[1] = activeGames[g].battleState[1][side].username
                     /\ ~activeGames'[g].battleState[1][side].mustSwitch

\* C11 (faint then forced switch): an attack that takes the defender's active
\* creature to 0 or less sets its currentHp to 0 and fainted; with a teammate
\* standing the turn goes to the defender with mustSwitch and a forceSwitch
\* event, and nothing that side sends before it switches changes the match;
\* an attack that does not faint passes the turn with no mustSwitch.
C11_FaintThenForcedSwitch ==
    [][/\ AttackTookEffect => FaintOrPass
       /\ ObligationBlocksAttack]_vars

\* an attack has just fainted a creature whose side has a teammate standing:
\* that side has the turn, has to switch and was sent forceSwitch
C11_Witness ==
    /\ Len(emitted) = 2
    /\ emitted[2].event = "forceSwitch"
    /\ \E g \in DOMAIN activeGames :
        \E side \in {"player1", "player2"} :
            /\ activeGames[g].battleState[1][side].mustSwitch
            /\ activeGames[g].turn = activeGames[g].battleState[1][side].id
            /\ ActivePokemon(activeGames[g], side).fainted
            /\ emitted[2].to = {activeGames[g].turn}

\* ---- C12
\* this step is a switch that took effect: its log opens with the line
\* "<username> switched from <old> to <new>!"
SwitchTookEffect == Update # None /\ Update[1].log # <<>> /\ Update[1].log[1].text = "switched"

\* the switch that took effect was made on the actor's turn to a creature of
\* its team that was neither fainted nor active, and did what a switch does
SwitchWasLegal ==
    LET g == Update[1].gameId
        game == activeGames[g]
        mine == SideOf(game, Actor)
        team == game.players[Actor].team
        targetIndex == activeGames'[g].battleState[1][mine].activePokemon
    IN /\ g \in DOMAIN activeGames
       /\ game.battleState # None
       /\ game.turn = Actor
       /\ game.battleState[1][mine].id = Actor
       /\ g \in DOMAIN activeGames'
       /\ targetIndex \in 0 .. (Len(team) - 1)
       /\ ~team[targetIndex + 1].fainted
       /\ targetIndex # game.battleState[1][mine].activePokemon
       /\ activeGames'[g].battleState[1][mine].activePokemonIndex = targetIndex
       /\ Update[1].battleState[mine][1].activePokemon = sanitizePokemon(team[targetIndex + 1])
       /\ Update[1].log[1].args[3] = team[targetIndex + 1].name
       /\ ~activeGames'[g].battleState[1][mine].mustSwitch
       /\ activeGames'[g].turn = OpponentOf(game, Actor)[1]
       /\ activeGames'[g].players = game.players
       /\ activeGames'[g].battleState[1][OtherSide(mine)] = game.battleState[1][OtherSide(mine)]
       /\ leaderboard' = leaderboard

\* a side's active creature changes in a switch that took effect only
ActiveChangesOnlyBySwitch ==
    \A g \in (DOMAIN activeGames) \cap (DOMAIN activeGames') :
        \A side \in {"player1", "player2"} :
            (/\ activeGames[g].battleState # None
             /\ activeGames'[g].battleState # None
             /\ \/ activeGames'[g].battleState[1][side].activePokemon
                        # activeGames[g].battleState[1][side].activePokemon
                \/ activeGames'[g].battleState[1][side].activePokemonIndex
                        # activeGames[g].battleState[1][side].activePokemonIndex)
            => /\ SwitchTookEffect
               /\ Update[1].gameId = g
               /\ activeGames[g].battleState[1][side].id = Actor

\* C12 (switch): a switch takes effect only on the acting player's turn, to an
\* index within the team whose creature is not fainted and not the active one;
\* it makes that creature active, clears the side's mustSwitch, passes the
\* turn to the opponent and leaves every creature's currentHp and fainted
\* flag, the registry and the leaderboard as they were.
C12_Switch ==
    [][/\ SwitchTookEffect => SwitchWasLegal
       /\ ActiveChangesOnlyBySwitch]_vars

\* a switch has just made another creature of the team active and passed
\* the turn
C12_Witness ==
    /\ emitted # <<>>
    /\ emitted[1].event = "gameStateUpdate"
    /\ emitted[1].data[1].log[1].text = "switched"
    /\ \E g \in DOMAIN activeGames :
        \E side \in {"player1", "player2"} :
            /\ activeGames[g].battleState[1][side].activePokemon # 0
            /\ ~ActivePokemon(activeGames[g], side).fainted
            /\ activeGames[g].turn # activeGames[g].battleState[1][side].id

\* ---- C13
\* the attack of this step left the attacked side with no creature standing
LastCreatureFainted ==
    LET game == activeGames[Update[1].gameId]
        theirs == OtherSide(SideOf(game, Actor))
    IN \A i \in DOMAIN Update[1].battleState[theirs][1].team :
            Update[1].battleState[theirs][1].team[i].fainted

\* the step ended the match for the attacker
MatchEnded ==
    LET g == Update[1].gameId
        game == activeGames[g]
        winner == Username(Actor)
        loser == game.players[OpponentOf(game, Actor)[1]].username
        before == IF winner \in DOMAIN leaderboard THEN leaderboard[winner] ELSE 0
    IN /\ g \notin DOMAIN activeGames'
       /\ DOMAIN leaderboard' = (DOMAIN leaderboard) \cup {winner}
       /\ leaderboard'[winner] = before + 1
       /\ \A u \in DOMAIN leaderboard : u # winner => leaderboard'[u] = leaderboard[u]
       /\ Len(emitted') = 2
       /\ emitted'[1].to = SeqToSet(game.playerOrder)
       /\ emitted'[2].to = SeqToSet(game.playerOrder)
       /\ emitted'[2].event = "gameOver"
       /\ emitted'[2].data.winnerId = Actor
       /\ emitted'[2].data.finalState = Update
       /\ Update[1].log[Len(Update[1].log)] = Line("Game Over!", <<winner, loser>>, 0)

\* a match leaves the registry, and the leaderboard changes, in a step that
\* ends the match only
EndsOnlyByLastFaint ==
    (leaderboard' # leaderboard \/ DOMAIN activeGames' # DOMAIN activeGames)
        => AttackTookEffect /\ LastCreatureFainted

\* once the match is gone no step brings it back, awards a win or sends
\* anything
NoEffectAfterEnd ==
    \A g \in 1 .. history.games :
        g \notin DOMAIN activeGames
        => /\ g \notin DOMAIN activeGames'
           /\ DOMAIN activeGames = {}
                => /\ leaderboard' = leaderboard
                   /\ rooms' = rooms
                   /\ detachedGames' = detachedGames
                   /\ emitted' = <<>>

\* C13 (match end): the attack that faints the opponent's last standing
\* creature adds exactly 1 to the attacker's leaderboard entry and changes no
\* other entry, sends the final gameStateUpdate and then gameOver naming the
\* attacker to both sessions, and removes the match; afterwards no selectTeam
\* or performAction for that match id has any effect.
C13_MatchEnd ==
    [][/\ (AttackTookEffect /\ LastCreatureFainted) => MatchEnded
       /\ EndsOnlyByLastFaint
       /\ NoEffectAfterEnd]_vars

\* the match has just ended: gameOver was sent, the match is gone and the
\* winner has one win
C13_Witness ==
    /\ Len(emitted) = 2
    /\ emitted[2].event = "gameOver"
    /\ emitted[2].to = {"a", "b"}
    /\ 1 \notin DOMAIN activeGames
    /\ leaderboard = With(EmptyMap, Username(emitted[2].data.winnerId), 1)

\* ---- C14
\* the session that disconnects in this step
Leaver == CHOOSE s \in Sockets : sockets[s] = "connected" /\ sockets'[s] = "gone"

\* the matches of the registry that have session s as a player
MatchesOf(s) == {g \in DOMAIN activeGames : s \in SeqToSet(activeGames[g].playerOrder)}

\* the other player of match g
Remaining(g, s) == CHOOSE o \in SeqToSet(activeGames[g].playerOrder) : o # s

\* what the step added to the leaderboard entry of session o
Awarded(o) ==
    (IF Username(o) \in DOMAIN leaderboard' THEN leaderboard'[Username(o)] ELSE 0)
        - (IF Username(o) \in DOMAIN leaderboard THEN leaderboard[Username(o)] ELSE 0)

\* a disconnect removes the oldest match of the leaver and no other; its
\* remaining player, if connected, is sent opponentDisconnected and gets one
\* win exactly if the battle of that match had started
DisconnectSettlesOldestMatch ==
    (sockets' # sockets) =>
        IF MatchesOf(Leaver) = {}
        THEN activeGames' = activeGames /\ leaderboard' = leaderboard /\ emitted' = <<>>
        ELSE LET g == CHOOSE h \in MatchesOf(Leaver) : \A k \in MatchesOf(Leaver) : h <= k
                 o == Remaining(g, Leaver)
                 started == activeGames[g].battleState # None
             IN /\ activeGames' = Without(activeGames, g)
                /\ \A u \in DOMAIN leaderboard' :
                        u # Username(o) => u \in DOMAIN leaderboard /\ leaderboard'[u] = leaderboard[u]
                /\ IF sockets[o] = "connected"
                   THEN /\ Awarded(o) = IF started THEN 1 ELSE 0
                        /\ emitted' = <<[to |-> {o}, event |-> "opponentDisconnected",
                                         data |-> <<Username(Leaver),
                                                    IF started THEN "You win!"
                                                    ELSE "Match cancelled.">>]>>
                   ELSE leaderboard' = leaderboard /\ emitted' = <<>>

\* a win is awarded one at a time, in a step that removes one match
WinRemovesMatch ==
    (leaderboard' # leaderboard)
        => /\ Sum(leaderboard') = Sum(leaderboard) + 1
           /\ \E g \in DOMAIN activeGames : activeGames' = Without(activeGames, g)

\* no more wins than matches that have left the registry
OneWinPerMatch == Sum(leaderboard) <= history.games - Cardinality(DOMAIN activeGames)

Paired == emitted' # <<>> /\ emitted'[1].event = "matchFound"
LeftWaiting == emitted' # <<>> /\ emitted'[1].event = "waitingForOpponent"

\* the pairing made one new match of the waiting session (player one) and the
\* caller, told both, and emptied the waiting slot
PairedRight ==
    LET added == (DOMAIN activeGames') \ (DOMAIN activeGames)
    IN /\ waitingPlayer # None
       /\ waitingPlayer' = None
       /\ Cardinality(added) = 1
       /\ \A g \in DOMAIN activeGames : g \in DOMAIN activeGames' /\ activeGames'[g] = activeGames[g]
       /\ \A g \in added :
            LET game == activeGames'[g]
                player1 == game.playerOrder[1]
                player2 == game.playerOrder[2]
            IN /\ player1 = waitingPlayer[1]
               /\ player2 # player1
               /\ sockets[player1] = "connected" /\ sockets[player2] = "connected"
               /\ DOMAIN game.players = {player1, player2}
               /\ game.players[player1].isPlayer1 /\ ~game.players[player2].isPlayer1
               /\ \A s \in {player1, player2} :
                    ~game.players[s].hasSelected /\ game.players[s].team = <<>>
               /\ game.battleState = None
               /\ game.id = g
               /\ emitted' = <<[to |-> {player1}, event |-> "matchFound",
                                data |-> <<g, Username(player2)>>],
                               [to |-> {player2}, event |-> "matchFound",
                                data |-> <<g, Username(player1)>>]>>

\* the caller found nobody else waiting, was made the waiting session and no
\* match was made
LeftWaitingRight ==
    /\ Len(emitted') = 1
    /\ \E s \in Sockets :
        /\ emitted'[1].to = {s}
        /\ waitingPlayer \in {None, Some(s)}
        /\ waitingPlayer' = Some(s)
    /\ activeGames' = activeGames

\* matches are made by a pairing only, and the waiting slot is filled by a
\* findMatch and emptied by a pairing or by the disconnect of the waiting
\* session only
SlotAndRegistryByFindMatch ==
    /\ (DOMAIN activeGames') \ (DOMAIN activeGames) # {} => Paired
    /\ (waitingPlayer' # waitingPlayer /\ waitingPlayer' # None) => LeftWaiting
    /\ (waitingPlayer' # waitingPlayer /\ waitingPlayer' = None)
            => \/ Paired
               \/ sockets' # sockets /\ waitingPlayer = Some(Leaver)
    /\ (sockets' # sockets /\ waitingPlayer = Some(Leaver)) => waitingPlayer' = None

\* every match has two different sessions, and the waiting session is
\* connected
TwoDistinctPlayers ==
    /\ \A g \in DOMAIN activeGames :
        /\ activeGames[g].playerOrder[1] # activeGames[g].playerOrder[2]
        /\ DOMAIN activeGames[g].players = SeqToSet(activeGames[g].playerOrder)
    /\ waitingPlayer # None => sockets[waitingPlayer[1]] = "connected"

\* C15 (matchmaking): findMatch while another session waits makes exactly one
\* new match of the waiting session (player one) and the caller, sends both
\* matchFound and empties the waiting slot; findMatch with nobody or the caller
\* itself waiting makes no match and leaves the caller waiting; no match has
\* one session in both slots; a waiting session that disconnects leaves the
\* slot.
C15_Matchmaking ==
    /\ []TwoDistinctPlayers
    /\ [][/\ Paired => PairedRight
          /\ LeftWaiting => LeftWaitingRight
          /\ SlotAndRegistryByFindMatch]_vars

\* two sessions that already share a match have just been paired again: the
\* waiting one is player one of the new match and nobody waits any more
C15_Witness ==
    /\ Len(emitted) = 2
    /\ emitted[1].event = "matchFound"
    /\ waitingPlayer = None
    /\ 2 \in DOMAIN activeGames
    /\ 1 \in DOMAIN activeGames
    /\ emitted[1].to = {activeGames[2].playerOrder[1]}
    /\ activeGames[2].playerOrder[1] # activeGames[2].playerOrder[2]

\* ---- C16
\* the phase of match g in registry r when n matches have been made:
\* 0 not made yet, 1 formed/selecting, 2 battling, 3 finished (deleted)
Phase(r, n, g) ==
    IF g \in DOMAIN r THEN (IF r[g].battleState = None THEN 1 ELSE 2)
    ELSE IF g <= n THEN 3 ELSE 0

\* no match moves back: the phase never decreases, a selection flag and the
\* battle state are never cleared, and a match enters the registry in
\* selection
PhaseForward ==
    \A g \in 1 .. history'.games :
        /\ Phase(activeGames', history'.games, g) >= Phase(activeGames, history.games, g)
        /\ Phase(activeGames, history.games, g) = 0
                => Phase(activeGames', history'.games, g) \in {0, 1}
        /\ (g \in DOMAIN activeGames /\ g \in DOMAIN activeGames')
                => \A s \in DOMAIN activeGames[g].players :
                        activeGames[g].players[s].hasSelected
                        => /\ activeGames'[g].players[s].hasSelected
                           /\ Len(activeGames'[g].players[s].team) = 3

\* a match is battling exactly when both its players have selected, and
\* every id of the registry has been made
PhaseOfSelection ==
    \A g \in DOMAIN activeGames :
        /\ g \in 1 .. history.games
        /\ activeGames[g].battleState # None
            <=> \A s \in DOMAIN activeGames[g].players : activeGames[g].players[s].hasSelected

\* C16 (phase order): a match only moves forward through formed/selecting
\* (no battle state), battling (battle state present) and finished (deleted):
\* hasSelected and the battle state are never cleared, and a match that has
\* left the registry never comes back.
C16_PhaseOrder == []PhaseOfSelection /\ [][PhaseForward]_vars

\* a match has gone through selection and battle and is finished, while a
\* later match of the same sessions is still in selection
C16_Witness ==
    /\ history.games = 2
    /\ 1 \notin DOMAIN activeGames
    /\ 2 \in DOMAIN activeGames
    /\ activeGames[2].battleState = None
    /\ Len(emitted) = 2
    /\ emitted[2].event = "gameOver"
    /\ emitted[2].data.finalState[1].gameId = 1

\* ---- C17
\* every creature of every team a game object holds
Creatures ==
    UNION {{activeGames[g].players[s].team[i] : i \in DOMAIN activeGames[g].players[s].team} :
                g \in DOMAIN activeGames, s \in Sockets}
    \cup UNION {{detachedGames[g].players[s].team[i] :
                    i \in DOMAIN detachedGames[g].players[s].team} :
                g \in DOMAIN detachedGames, s \in Sockets}

InputRefused ==
    /\ awaiting' = awaiting
    /\ leaderboard' = leaderboard
    /\ DOMAIN activeGames' = DOMAIN activeGames
    /\ \A g \in DOMAIN activeGames :
            activeGames'[g] \in {activeGames[g], [activeGames[g] EXCEPT !.log = <<>>]}

\* C18 (error reporting): every refused client input (selectTeam for an
\* unknown match, by a player who has selected, or with malformed teamIds;
\* performAction out of turn, against mustSwitch, with an unknown move or an
\* illegal switch target) sends gameError to the session it came from and to
\* nobody else.
C18_RejectionReported ==
    [][InputRefused
        => /\ Len(emitted') = 1
           /\ emitted'[1].event = "gameError"
           /\ Cardinality(emitted'[1].to) = 1]_vars

\* ---- C19
\* the attacking and the attacked creature and the move of the attack of this
\* step, as they were before it
Attacker == ActivePokemon(activeGames[Update[1].gameId], SideOf(activeGames[Update[1].gameId], Actor))
Defender ==
    ActivePokemon(activeGames[Update[1].gameId],
                  OtherSide(SideOf(activeGames[Update[1].gameId], Actor)))
MoveUsed == FindMove(Attacker, Update[1].log[1].args[3])[1]

\* base = floor((attack / defense) * power / 8 + 2)
BaseDamage == ((Attacker.attack * MoveUsed.power) \div (Defender.defense * 8)) + 2

\* the health the attacked creature has in the state sent after the attack
HealthAfter ==
    LET game == activeGames[Update[1].gameId]
        theirs == OtherSide(SideOf(game, Actor))
    IN Update[1].battleState[theirs][1].team[game.battleState[1][theirs].activePokemon + 1].currentHp

\* the attack took n off the health of the attacked creature (down to 0 at
\* most)
Dealt(n) == HealthAfter = Max(0, Defender.currentHp - n)

\* a move of power 0 deals exactly 0
StatusMoveDealsNothing ==
    MoveUsed.power = 0 => Update[1].log[2].text = "no effect" /\ Dealt(0)

\* a move of power > 0 deals the damage its log line states, at least 1 and
\* within [max(1, floor(base * 0.85)), base]
DamageInRange ==
    /\ Update[1].log[2].text = "took damage"
    /\ Dealt(Update[1].log[2].n)
    /\ Update[1].log[2].n >= 1
    /\ Update[1].log[2].n >= Max(1, (BaseDamage * 85) \div 100)
    /\ Update[1].log[2].n <= BaseDamage

\* C19 (damage, for an attacker whose attack stat is positive): with
\* base = floor((attack / defense) * power / 8 + 2) and defense > 0, a move of
\* power 0 deals exactly 0; a move of power > 0 used by a creature of
\* attack > 0 deals at least 1 and within [max(1, floor(base * 0.85)), base];
\* used by a creature of attack 0 it deals 0.
C19_Damage ==
    [][AttackTookEffect =>
            /\ Defender.defense > 0
            /\ StatusMoveDealsNothing
            /\ (MoveUsed.power > 0 /\ Attacker.attack > 0) => DamageInRange
            /\ (MoveUsed.power > 0 /\ Attacker.attack = 0)
                    => Update[1].log[2] = Line("took damage", Update[1].log[2].args, 0) /\ Dealt(0)]_vars

\* C19 as stated, for every attack >= 0: a move of power 0 deals exactly 0 and
\* a move of power > 0 deals at least 1 and within the range
C19_DamageForAnyAttack ==
    [][AttackTookEffect =>
            /\ StatusMoveDealsNothing
            /\ MoveUsed.power > 0 => DamageInRange]_vars

\* the example of the rule: attack 80 against defense 50 with power 40 has
\* just dealt 8, the least of the range [8, 10]
C19_Witness ==
    /\ emitted # <<>>
    /\ emitted[1].event = "gameStateUpdate"
    /\ emitted[1].data[1].log[1].text = "used"
    /\ emitted[1].data[1].log[2] = Line("took damage", emitted[1].data[1].log[2].args, 8)
    /\ \A p \in Creatures : p.attack = 80 /\ p.defense = 50 /\ p.moves[1].power = 40

\* ---- C20
\* the invocations in flight for a species identifier / a move name
ProducersOf(identifier) == {p \in DOMAIN producers : producers[p].identifier = identifier}
MoveFetchesOf(moveName) == {f \in DOMAIN moveFetches : Join(moveFetches[f].words, "-") = moveName}

\* the calls still suspended on producer p: its followers
FollowersOf(p) == {ci \in SuspendedCalls : CallSlot(ci).wait = p}

\* per key: at most one invocation in flight, a pending entry exactly while
\* it is in flight and naming it, and never a key cached and pending at once
OnePendingPerKey ==
    /\ \A k \in Identifiers :
        /\ Cardinality(ProducersOf(k)) <= 1
        /\ k \in DOMAIN pokemonFetchPromises <=> ProducersOf(k) # {}
        /\ k \in DOMAIN pokemonFetchPromises => pokemonFetchPromises[k] \in ProducersOf(k)
        /\ ~(k \in DOMAIN pokemonDataCache /\ k \in DOMAIN pokemonFetchPromises)
    /\ \A m \in MoveNames :
        /\ Cardinality(MoveFetchesOf(m)) <= 1
        /\ m \in DOMAIN moveFetchPromises <=> MoveFetchesOf(m) # {}
        /\ m \in DOMAIN moveFetchPromises => moveFetchPromises[m] \in MoveFetchesOf(m)
        /\ ~(m \in DOMAIN moveDataCache /\ m \in DOMAIN moveFetchPromises)
    /\ DOMAIN pokemonFetchPromises \subseteq Identifiers
    /\ DOMAIN moveFetchPromises \subseteq MoveNames

\* every suspended call waits for an invocation that is in flight
FollowersWaitForLiving ==
    /\ \A ci \in SuspendedCalls : CallSlot(ci).wait \in DOMAIN producers
    /\ \A pi \in MoveCalls : ~MoveSlot(pi).done => MoveSlot(pi).wait \in DOMAIN moveFetches

\* the step in which an invocation settles removes the pending entry of its
\* key and leaves it no follower
SettleClearsPending ==
    /\ \A p \in (DOMAIN producers) \ (DOMAIN producers') :
            /\ producers[p].identifier \notin DOMAIN pokemonFetchPromises'
            /\ \A c \in DOMAIN awaiting' : \A i \in DOMAIN awaiting'[c].slots :
                    ~awaiting'[c].slots[i].done => awaiting'[c].slots[i].wait # p
    /\ \A f \in (DOMAIN moveFetches) \ (DOMAIN moveFetches') :
            /\ Join(moveFetches[f].words, "-") \notin DOMAIN moveFetchPromises'
            /\ \A p \in DOMAIN producers' : \A i \in DOMAIN producers'[p].slots :
                    ~producers'[p].slots[i].done => producers'[p].slots[i].wait # f

\* C20 (pending-table invariant): for each species identifier and each move
\* name at most one producer invocation is in flight, the pending entry of
\* the key exists exactly while that invocation is in flight, the step in
\* which it settles (success or failure, any number of followers) removes the
\* entry, and no key is cached and pending at once.
C20_PendingTable ==
    /\ [](OnePendingPerKey /\ FollowersWaitForLiving)
    /\ [][SettleClearsPending]_vars

\* one species request has failed and left no pending entry and no cache
\* entry, while another request is in flight with two or more followers
C20_Witness ==
    \E k \in Identifiers :
        /\ history.pokemonFailed[k] > 0
        /\ k \notin DOMAIN pokemonFetchPromises
        /\ k \notin DOMAIN pokemonDataCache
        /\ \E j \in DOMAIN pokemonFetchPromises :
                Cardinality(FollowersOf(pokemonFetchPromises[j])) >= 2

\* ---- C21
\* this step handled a client input that took no effect: it sent no state
\* update, took up or resumed no submission, and no session or match came or
\* went
TookNoEffect ==
    /\ Update = None
    /\ awaiting' = awaiting
    /\ sockets' = sockets
    /\ waitingPlayer' = waitingPlayer
    /\ DOMAIN activeGames' = DOMAIN activeGames

\* this step refused a performAction for its unknown action type
UnknownActionRefused ==
    /\ Len(emitted') = 1
    /\ emitted'[1].event = "gameError"
    /\ emitted'[1].data = <<"Unknown action type.">>

\* C21 (rejected action, frame): a performAction that is rejected after the
\* turn and mustSwitch checks (unknown action type, unknown move name, switch
\* to an out-of-range, fainted or already-active target) leaves every match
\* as it was: narration log, turn pointer, HP, fainted flags, active
\* creatures and mustSwitch flags.
C21_RejectedActionChangesNothing ==
    [][(TookNoEffect \/ UnknownActionRefused) => activeGames' = activeGames]_vars

\* ---- C22
\* C22 (disconnect removes every match): once a session has disconnected, no
\* match of the registry has it as a player, whatever findMatch, selectTeam,
\* performAction and disconnect events came before (also a findMatch by a
\* session that is already in a match).
C22_NoMatchOfGoneSession ==
    \A g \in DOMAIN activeGames :
        \A s \in DOMAIN activeGames[g].players : sockets[s] = "connected"

\* ---- C23
\* performAction would let this action of session s take effect in game
\* (lines 295, 302 and 320 all pass)
Accepted(game, s, action) ==
    LET mine == SideOf(game, s)
        playerState == game.battleState[1][mine]
        playerPokemon == ActivePokemon(game, mine)
    IN /\ ~ForcedSwitchPending(playerState, action)
       /\ \/ /\ action.type = "attack"
             /\ FindMove(playerPokemon, action.moveName) # None
             /\ ~playerPokemon.fainted
          \/ /\ action.type = "switch"
             /\ ~IllegalTarget(game.players[playerState.id].team, action.pokemonIndex,
                               playerPokemon)

\* the places of the team of session s that hold a creature standing, other
\* than the place of the active creature
Bench(game, s) ==
    LET playerState == game.battleState[1][SideOf(game, s)]
        team == game.players[playerState.id].team
    IN {i \in 0 .. Len(team) - 1 : i # playerState.activePokemon /\ ~team[i + 1].fainted}

\* C23 (no stuck battle): in every battling match the player whose turn it is
\* has an action the server accepts, and a side that has to switch can switch
\* to every teammate standing at a place other than the active one, whatever
\* team was selected (also one with a species more than once).
C23_NoStuckBattle ==
    \A g \in DOMAIN activeGames :
        activeGames[g].battleState # None
        => LET game == activeGames[g]
               s == game.turn
           IN /\ \E action \in ActionInputs : Accepted(game, s, action)
              /\ game.battleState[1][SideOf(game, s)].mustSwitch
                    => \A i \in Bench(game, s) : Accepted(game, s, SwitchAction(i))

\* ---- C24
\* the battleStart events this step sent
BattleStarts == {i \in DOMAIN emitted' : emitted'[i].event = "battleStart"}

\* this step is the completion of a selectTeam: a suspended submission
\* resumed and left
SelectTeamCompleted ==
    \E c \in DOMAIN awaiting : c \notin DOMAIN awaiting' /\ awaiting[c].kind = "selectTeam"

\* a battleStart carries the state of a match of the registry whose battle
\* had not been started before
StartedOnce ==
    \A i \in BattleStarts :
        /\ emitted'[i].data # None
        /\ emitted'[i].data[1].gameId \in DOMAIN activeGames
        /\ activeGames[emitted'[i].data[1].gameId].battleState = None

\* the completion of a selectTeam leaves a battle that has started as it is:
\* its battle state (active creatures, mustSwitch flags), its turn pointer and
\* its teams (HP, fainted flags)
CompletionKeepsBattle ==
    SelectTeamCompleted
    => \A g \in (DOMAIN activeGames) \cap (DOMAIN activeGames') :
            activeGames[g].battleState # None
            => /\ activeGames'[g].battleState = activeGames[g].battleState
               /\ activeGames'[g].turn = activeGames[g].turn
               /\ \A s \in DOMAIN activeGames[g].players :
                    activeGames'[g].players[s].team = activeGames[g].players[s].team

\* C24 (battle starts once): whatever the interleaving of selectTeam
\* submissions and their resolutions, the battle state of a match is set up
\* and battleStart is sent at most once, battleStart is sent only for a match
\* that is in the registry, and once the battle has started no selectTeam
\* completion resets HP, active creatures, mustSwitch flags or the turn.
C24_BattleStartsOnce == [][StartedOnce /\ CompletionKeepsBattle]_vars

\* ---- C25
\* C25 (active-creature consistency): in every battling match each side's
\* active creature is the creature of its own team at activePokemonIndex, the
\* turn pointer is one of the two players, and a side's active creature is
\* fainted exactly when the side is flagged mustSwitch.
C25_ActiveConsistency ==
    \A g \in DOMAIN activeGames :
        activeGames[g].battleState # None
        => /\ activeGames[g].turn \in SeqToSet(activeGames[g].playerOrder)
           /\ \A side \in {"player1", "player2"} :
                LET playerState == activeGames[g].battleState[1][side]
                    team == activeGames[g].players[playerState.id].team
                IN /\ playerState.id \in SeqToSet(activeGames[g].playerOrder)
                   /\ playerState.activePokemonIndex \in 0 .. Len(team) - 1
                   /\ playerState.activePokemon = playerState.activePokemonIndex
                   /\ ActivePokemon(activeGames[g], side).fainted <=> playerState.mustSwitch

====
